---- MODULE Spec2Model ----
(***************************************************************************)
(* The structure codec of odxtools (odxtools/basicstructure.py): static    *)
(* length inference, the two-pass encoder with padding and validation, and *)
(* the decoder with its running cursor.                                    *)
(*                                                                         *)
(* Byte strings are sequences of naturals below 256; a name->value mapping *)
(* (a Python dict) is a function whose domain is a set of short names.     *)
(* Python's None is the number -1 where an Optional[int] is modelled.      *)
(***************************************************************************)
EXTENDS Integers, Sequences, FiniteSets, TLC

VARIABLES
    parameters,     \* BasicStructure.parameters
    byte_size,      \* BasicStructure.byte_size (None or a size)
    pc,             \* position of the running call
    idx,            \* index of the parameter the running loop is at
    encode_state,   \* the EncodeState of the running encode call
    states_created, \* how many EncodeState objects the call has constructed
    arg_values,     \* the caller's param_value mapping of the encode call
    arg_eop,        \* the is_end_of_pdu argument of the encode call
    arg_bit_position, \* the bit_position argument of the call
    arg_is_dict,    \* whether the caller's param_value is a dict
    trace,          \* the steps the running call has taken, in order
    result,         \* the byte string an encode call returned
    error,          \* the exception that ended the call, or "none"
    warnings,       \* the warnings emitted by the call, in order
    static_result,  \* what get_static_bit_length returned
    decode_state,   \* the DecodeState handed to convert_bytes_to_physical
    inner,          \* inner_decode_state of convert_bytes_to_physical
    seen,           \* the parameter_values each parameter's decode received
    reported,       \* the cursor position each parameter's decode reported
    dec_entry,      \* "decode" or "convert_bytes_to_physical"
    dec_result,     \* what the decode call returned
    pdx_zip,        \* the pdx_zip argument of the Database constructor
    odx_d_file_name, \* the odx_d_file_name argument of the constructor
    db,             \* the attributes of the Database object
    constructed,    \* whether the constructor has returned the object
    refresh_calls,  \* how many times refresh has been entered
    db_before,      \* the attributes when refresh was last called
    observed,       \* what the last read of the accessors returned
    strict_mode,    \* whether a reference that cannot be found is fatal
    listed          \* what required_parameters and free_parameters returned

vars == <<parameters, byte_size, pc, idx, encode_state, states_created,
          arg_values, arg_eop,
          arg_bit_position, arg_is_dict, trace, result, error, warnings,
          static_result, decode_state, inner, seen, reported, dec_entry,
          dec_result, pdx_zip, odx_d_file_name, db, constructed,
          refresh_calls, db_before, observed, strict_mode, listed>>

structVars == <<parameters, byte_size, listed>>
encVars == <<encode_state, states_created, arg_values, arg_eop, arg_is_dict,
            trace, result>>
decVars == <<decode_state, inner, seen, reported, dec_entry, dec_result>>
dbVars == <<pdx_zip, odx_d_file_name, db, constructed, refresh_calls,
           db_before, observed, strict_mode>>

(***************************************************************************)
(* Bounds of the model.                                                    *)
(***************************************************************************)
MaxParams == 2      \* longest parameter list
MaxByteSize == 3    \* largest explicit BYTE-SIZE
MaxMsgLen == 3      \* longest message handed to decode

None == -1

ShortNames == <<"p1", "p2", "p3", "p4", "p5">>
NameOf(i) == ShortNames[i]

Positions == {None, 0, 1}           \* BYTE-POSITION of a parameter
InputValues == {1, 2}               \* physical values a caller supplies
InputBytes == {1, 2}                \* bytes of a message handed to decode
CodedValue == 1                     \* the value of a coded constant
BitPositions == {0, 3}              \* bit positions a structure is invoked at

EmptyMap == [n \in {} |-> 0]

(***************************************************************************)
(* Helpers on byte strings.                                                *)
(***************************************************************************)
Max(a, b) == IF a >= b THEN a ELSE b

Zeros(n) == [i \in 1..n |-> 0]

\* bytes.ljust(n, b"\0")
Ljust(blob, n) == IF Len(blob) >= n THEN blob ELSE blob \o Zeros(n - Len(blob))

\* blob[pos:]
SliceFrom(blob, pos) ==
    IF pos >= Len(blob) THEN <<>> ELSE SubSeq(blob, pos + 1, Len(blob))

RECURSIVE BitOr(_, _)
BitOr(a, b) ==
    IF a = 0 THEN b
    ELSE IF b = 0 THEN a
    ELSE (IF a % 2 = 1 \/ b % 2 = 1 THEN 1 ELSE 0) + 2 * BitOr(a \div 2, b \div 2)

(***************************************************************************)
(* The parameter interface the codec consumes.  A parameter is a record    *)
(*   short_name, kind, byte_position, bit_position, bit_length,            *)
(*   coded_value.                                                          *)
(***************************************************************************)
IsKey(p) == p.kind \in {"LENGTH-KEY", "TABLE-KEY"}

ByteLength(p) == (p.bit_length + 7) \div 8

\* Parameter.get_static_bit_length
param_static_bit_length(p) == p.bit_length

\* int.to_bytes(n, "big"): the n bytes of a value, the most significant first
RECURSIVE int_to_bytes(_, _)
int_to_bytes(value, n) ==
    IF n = 0 THEN <<>>
    ELSE Append(int_to_bytes(value \div 256, n - 1), value % 256)

\* a reading that takes the first byte for the least significant one
RECURSIVE bytes_to_int_little(_)
bytes_to_int_little(blob) ==
    IF blob = <<>> THEN 0
    ELSE blob[1] + 256 * bytes_to_int_little(Tail(blob))

\* int.from_bytes(blob, "big")
RECURSIVE bytes_to_int(_)
bytes_to_int(blob) ==
    IF blob = <<>> THEN 0
    ELSE 256 * bytes_to_int(SubSeq(blob, 1, Len(blob) - 1)) + blob[Len(blob)]

RECURSIVE Pow256(_)
Pow256(n) == IF n = 0 THEN 1 ELSE 256 * Pow256(n - 1)

\* the bytes of an integer value in the parameter's coded type: as many
\* bytes as its bit length needs, or as the value needs when the parameter
\* has no static length; a value that does not fit is an EncodeError
internal_to_bytes(p, value) ==
    LET n == IF p.bit_length # None THEN ByteLength(p)
             ELSE IF value < 256 THEN 1 ELSE 2
    IN IF value >= Pow256(n)
       THEN [error |-> "EncodeError", bytes |-> <<>>]
       ELSE [error |-> "none", bytes |-> int_to_bytes(value, n)]

\* The bytes a parameter contributes: a constant contributes its coded value
\* and refuses another one, a value parameter needs its value, a matching
\* request parameter mirrors the first byte of the triggering request and
\* fails without one, a length key takes the value recorded under its name
\* or 0, a parameter with a PARAM-LENGTH-INFO type encodes like a value
\* parameter, a reserved parameter contributes zeros.
get_coded_value_as_bytes(p, es) ==
    LET given == p.short_name \in DOMAIN es.parameter_values
        val == es.parameter_values[p.short_name]
    IN CASE p.kind = "CODED-CONST" ->
              IF given /\ val # p.coded_value
              THEN [error |-> "TypeError", bytes |-> <<>>]
              ELSE internal_to_bytes(p, p.coded_value)
         [] p.kind = "VALUE" ->
              IF given THEN internal_to_bytes(p, val)
              ELSE [error |-> "EncodeError", bytes |-> <<>>]
         [] p.kind = "NRC-CONST" ->
              IF given /\ val # p.coded_value
              THEN [error |-> "EncodeError", bytes |-> <<>>]
              ELSE internal_to_bytes(p, p.coded_value)
         [] p.kind = "PHYS-CONST" ->
              IF given /\ val # p.coded_value
              THEN [error |-> "EncodeError", bytes |-> <<>>]
              ELSE internal_to_bytes(p, p.coded_value)
         [] p.kind = "PARAM-LENGTH-INFO" ->
              IF given THEN internal_to_bytes(p, val)
              ELSE [error |-> "EncodeError", bytes |-> <<>>]
         [] p.kind = "RESERVED" ->
              internal_to_bytes(p, 0)
         [] p.kind = "MATCHING-REQUEST" ->
              IF Len(es.triggering_request) = 0
              THEN [error |-> "EncodeError", bytes |-> <<>>]
              ELSE [error |-> "none", bytes |-> <<es.triggering_request[1]>>]
         [] OTHER ->
              internal_to_bytes(p, IF given THEN val ELSE 0)

\* The blob with new_data OR-ed in at byte pos, extended with zeros if short.
Emplace(blob, new_data, pos) ==
    LET long == Ljust(blob, pos + Len(new_data))
    IN [i \in 1..Len(long) |->
          IF i > pos /\ i <= pos + Len(new_data)
          THEN BitOr(long[i], new_data[i - pos])
          ELSE long[i]]

\* the name->value mapping with value stored under short_name
MapSet(m, k, v) == [n \in DOMAIN m \cup {k} |-> IF n = k THEN v ELSE m[n]]

\* the length key of the structure: its first parameter
LengthKeyName == NameOf(1)

\* what encoding p leaves in the mapping of the encode state: a parameter
\* with a PARAM-LENGTH-INFO type records the byte length of what it encoded
\* under the name of its length key
recorded_values(p, es, coded) ==
    IF p.kind = "PARAM-LENGTH-INFO"
    THEN MapSet(es.parameter_values, LengthKeyName, Len(coded))
    ELSE es.parameter_values

\* Parameter.encode_into_pdu: at the explicit byte position, else appended.
encode_into_pdu(p, es) ==
    LET coded == get_coded_value_as_bytes(p, es)
        pos == IF p.byte_position # None THEN p.byte_position
               ELSE Len(es.coded_message)
    IN IF coded.error # "none"
       THEN [error |-> coded.error, coded_message |-> es.coded_message,
             parameter_values |-> es.parameter_values]
       ELSE [error |-> "none",
             coded_message |-> Emplace(es.coded_message, coded.bytes, pos),
             parameter_values |-> recorded_values(p, es, coded.bytes)]

(***************************************************************************)
(* The structures of the model.                                            *)
(***************************************************************************)
CodecKinds == {"CODED-CONST", "VALUE", "LENGTH-KEY"}

MkParam(i, k, pos, bitpos, len) ==
    [short_name |-> NameOf(i), kind |-> k, byte_position |-> pos,
     bit_position |-> bitpos, bit_length |-> len, coded_value |-> CodedValue]

\* parameter lists of n one-byte parameters named by their place
ParamLists(n) ==
    LET choices == [1..n -> CodecKinds \X Positions]
    IN {[i \in 1..n |-> MkParam(i, c[i][1], c[i][2], None, 8)] : c \in choices}

CodecStructures == UNION {ParamLists(n) : n \in 0..MaxParams}

\* parameter lists for static length inference: parameters of unknown
\* length, of half a byte and of one byte, with and without a bit position
StaticLengths == {None, 4, 8}
StaticBitPositions == {None, 4}

StaticParamLists(n) ==
    LET choices == [1..n -> Positions \X StaticBitPositions \X StaticLengths]
    IN {[i \in 1..n |-> MkParam(i, "VALUE", c[i][1], c[i][2], c[i][3])] :
          c \in choices}

StaticStructures == UNION {StaticParamLists(n) : n \in 0..MaxParams}

\* parameter lists for encoding without an explicit size: value and
\* length-key parameters, each of one byte or of no static length
InferredLengths == {None, 8}
InferredParamLists(n) ==
    LET choices == [1..n -> {"VALUE", "LENGTH-KEY"} \X Positions
                              \X InferredLengths]
    IN {[i \in 1..n |-> MkParam(i, c[i][1], c[i][2], None, c[i][3])] :
          c \in choices}

\* parameter lists for coded_const_prefix: the four kinds it encodes and one
\* it does not
PrefixKinds ==
    {"CODED-CONST", "NRC-CONST", "MATCHING-REQUEST", "PHYS-CONST", "VALUE"}
PrefixParamLists(n) ==
    LET choices == [1..n -> PrefixKinds \X Positions]
    IN {[i \in 1..n |-> MkParam(i, c[i][1], c[i][2], None, 8)] : c \in choices}

PrefixStructures == UNION {PrefixParamLists(n) : n \in 0..MaxParams}

InferredStructures == UNION {InferredParamLists(n) : n \in 0..MaxParams}

ByteSizes == {None} \cup 0..MaxByteSize

\* byte strings handed to decode or given as the triggering request
Messages == UNION {[1..n -> InputBytes] : n \in 0..MaxMsgLen}

\* a key of the caller's mapping that names no parameter
StrayName == "zz"

\* name->value mappings a caller hands to encode: any of the names of the
\* parameter list and a name of no parameter, each with any of the values
ValueMapsOver(params, values) ==
    LET names == {params[i].short_name : i \in 1..Len(params)}
    IN UNION {[d -> values] : d \in SUBSET (names \cup {StrayName})}

ValueMaps(params) == ValueMapsOver(params, InputValues)

(***************************************************************************)
(* required_parameters, free_parameters                                    *)
(***************************************************************************)
\* Parameter.is_required: a value parameter (it has no default value)
is_required(p) == p.kind \in {"VALUE", "PARAM-LENGTH-INFO"}

\* Parameter.is_settable: a value parameter or a key
is_settable(p) == p.kind \in {"VALUE", "PARAM-LENGTH-INFO"} \/ IsKey(p)

\* [p for p in self.parameters if p.is_required]
required_parameters(params) == SelectSeq(params, is_required)

\* a loop that puts every settable parameter in front of the result
RECURSIVE free_parameters_prepending(_, _, _)
free_parameters_prepending(params, i, found) ==
    IF i > Len(params) THEN found
    ELSE IF ~is_settable(params[i])
    THEN free_parameters_prepending(params, i + 1, found)
    ELSE free_parameters_prepending(params, i + 1, <<params[i]>> \o found)

\* the loop of free_parameters, from parameter i on
RECURSIVE free_parameters(_, _, _)
free_parameters(params, i, found) ==
    IF i > Len(params) THEN found
    ELSE IF ~is_settable(params[i])
    THEN free_parameters(params, i + 1, found)
    ELSE free_parameters(params, i + 1, Append(found, params[i]))

NoListing ==
    [required_read |-> FALSE, required |-> <<>>,
     free_read |-> FALSE, free |-> <<>>]

\* parameter lists of every kind of the model, each appended
ListedKinds == PrefixKinds \cup CodecKinds
ListedStructures ==
    UNION {{[i \in 1..n |-> MkParam(i, c[i], None, None, 8)] :
               c \in [1..n -> ListedKinds]} : n \in 0..MaxParams}

(***************************************************************************)
(* get_static_bit_length                                                   *)
(***************************************************************************)
\* a walk that ignores explicit positions
RECURSIVE StaticWalk_sequential(_, _, _, _)
StaticWalk_sequential(params, i, cursor, length) ==
    IF i > Len(params) THEN ((length + 7) \div 8) * 8
    ELSE LET param_bit_length == param_static_bit_length(params[i])
         IN IF param_bit_length = None THEN None
            ELSE StaticWalk_sequential(params, i + 1,
                                       cursor + param_bit_length,
                                       Max(length, cursor + param_bit_length))

RECURSIVE StaticWalk(_, _, _, _)
StaticWalk(params, i, cursor, length) ==
    IF i > Len(params) THEN ((length + 7) \div 8) * 8
    ELSE LET param == params[i]
             param_bit_length == param_static_bit_length(param)
         IN IF param_bit_length = None THEN None
            ELSE LET bit_pos == IF param.bit_position = None THEN 0
                                ELSE param.bit_position
                     start == IF param.byte_position # None
                              THEN param.byte_position * 8 + bit_pos
                              ELSE cursor
                     next == start + param_bit_length
                 IN StaticWalk(params, i + 1, next, Max(length, next))

\* "if self.byte_size:" takes None and 0 alike as no explicit size
get_static_bit_length(params, size) ==
    IF size # None /\ size # 0 THEN 8 * size
    ELSE StaticWalk(params, 1, 0, 0)

(***************************************************************************)
(* coded_const_prefix                                                      *)
(***************************************************************************)
\* EncodeState(prefix, parameter_values={}, triggering_request=request_prefix)
PrefixEncodeState(request_prefix) ==
    [coded_message |-> <<>>, parameter_values |-> EmptyMap,
     is_end_of_pdu |-> FALSE, triggering_request |-> request_prefix]

\* a loop that takes every parameter for a constant
IsPrefixKind_all(p) == TRUE

\* the isinstance test of the loop
IsPrefixKind(p) ==
    p.kind \in {"CODED-CONST", "NRC-CONST", "MATCHING-REQUEST", "PHYS-CONST"}

(***************************************************************************)
(* convert_physical_to_internal, step by step                              *)
(***************************************************************************)
\* a state that holds the caller's mapping itself: what a parameter records
\* shows in the caller's mapping
CallerValues_aliased(param_value, recorded) == recorded

\* dict(param_value): the state holds a copy, what a parameter records in
\* it leaves the caller's mapping as it was
CallerValues(param_value, recorded) == param_value

NewEncodeState(values) ==
    [coded_message |-> <<>>, parameter_values |-> values,
     is_end_of_pdu |-> FALSE]

NoEncodeState == NewEncodeState(EmptyMap)

\* one iteration of the first loop
FirstPassParam(params, i, es, is_end_of_pdu) ==
    LET es1 == IF params[i] = params[Len(params)]
               THEN [es EXCEPT !.is_end_of_pdu = is_end_of_pdu]
               ELSE es
        out == encode_into_pdu(params[i], es1)
    IN [error |-> out.error,
        state |-> [es1 EXCEPT !.coded_message = out.coded_message,
                              !.parameter_values = out.parameter_values]]

\* padding on the wrong side
PadToByteSize_left(es, size) ==
    IF size # None /\ Len(es.coded_message) < size
    THEN [es EXCEPT !.coded_message =
             Zeros(size - Len(es.coded_message)) \o es.coded_message]
    ELSE es

\* the padding between the loops
PadToByteSize(es, size) ==
    IF size # None /\ Len(es.coded_message) < size
    THEN [es EXCEPT !.coded_message = Ljust(es.coded_message, size)]
    ELSE es

\* a second pass that skips nothing
EncodesInSecondPass_all(p) == TRUE

\* one iteration of the second loop
EncodesInSecondPass(p) == IsKey(p)

SecondPassParam(params, i, es) ==
    IF ~EncodesInSecondPass(params[i]) THEN [error |-> "none", state |-> es]
    ELSE LET out == encode_into_pdu(params[i], es)
         IN [error |-> out.error,
             state |-> [es EXCEPT !.coded_message = out.coded_message,
                                  !.parameter_values = out.parameter_values]]

\* a validation that treats the inferred size as it treats the explicit one
validate_coded_message_strict(params, size, coded_message) ==
    LET bit_length == IF size # None THEN 8 * size
                      ELSE StaticWalk(params, 1, 0, 0)
    IN [error |-> IF bit_length # None /\ Len(coded_message) * 8 # bit_length
                  THEN "OdxError" ELSE "none",
        warnings |-> <<>>]

\* a validation that only rejects a message shorter than the explicit size
validate_coded_message_atleast(params, size, coded_message) ==
    [error |-> IF size # None /\ Len(coded_message) < size THEN "OdxError"
               ELSE "none",
     warnings |-> <<>>]

\* _validate_coded_message: the error raised and the warnings emitted
validate_coded_message(params, size, coded_message) ==
    IF size # None
    THEN [error |-> IF Len(coded_message) = size THEN "none" ELSE "OdxError",
          warnings |-> <<>>]
    ELSE LET bit_length == get_static_bit_length(params, size)
         IN IF bit_length = None THEN [error |-> "none", warnings |-> <<>>]
            ELSE IF Len(coded_message) * 8 # bit_length
            THEN [error |-> "none", warnings |-> <<"size mismatch">>]
            ELSE [error |-> "none", warnings |-> <<>>]

Step(phase, i) == [phase |-> phase, index |-> i]

AfterLoop(next_pc) == IF idx = Len(parameters) THEN next_pc ELSE pc

\* a type check that lets everything through
IsMapping_any(is_dict) == TRUE

\* isinstance(param_value, dict)
IsMapping(is_dict) == is_dict

\* a missing alignment check
EncodeMisaligned_never(bit_position) == FALSE

\* the alignment check of convert_physical_to_bytes
EncodeMisaligned(bit_position) == bit_position # 0

EnterEncode(values, eop) ==
    /\ arg_values' = values
    /\ arg_eop' = eop
    /\ encode_state' = NewEncodeState(values)
    /\ states_created' = states_created + 1
    /\ idx' = 1
    /\ pc' = IF Len(parameters) = 0 THEN "pad" ELSE "pass1"

\* BasicStructure.encode(**params)
Encode ==
    /\ pc = "idle"
    /\ \E values \in ValueMaps(parameters) : EnterEncode(values, TRUE)
    /\ arg_bit_position' = 0
    /\ arg_is_dict' = TRUE
    /\ UNCHANGED dbVars
    /\ UNCHANGED <<structVars, trace, result, error, warnings, static_result>>
    /\ UNCHANGED decVars

\* BasicStructure.convert_physical_to_bytes(param_values, encode_state, bit_position)
ConvertPhysicalToBytes ==
    /\ pc = "idle"
    /\ \E is_dict \in BOOLEAN, bit_position \in BitPositions, eop \in BOOLEAN,
          values \in ValueMaps(parameters) :
          /\ arg_is_dict' = is_dict
          /\ arg_bit_position' = bit_position
          /\ IF ~IsMapping(is_dict) \/ EncodeMisaligned(bit_position)
             THEN /\ pc' = "error"
                  /\ error' = "EncodeError"
                  /\ UNCHANGED <<encode_state, states_created, arg_values,
                                 arg_eop, idx>>
             ELSE /\ EnterEncode(values, eop)
                  /\ UNCHANGED error
    /\ UNCHANGED dbVars
    /\ UNCHANGED <<structVars, trace, result, warnings, static_result>>
    /\ UNCHANGED decVars

\* BasicStructure.convert_physical_to_internal(param_value, ...)
ConvertPhysicalToInternal ==
    /\ pc = "idle"
    /\ \E is_dict \in BOOLEAN, eop \in BOOLEAN,
          values \in ValueMaps(parameters) :
          /\ arg_is_dict' = is_dict
          /\ IF ~IsMapping(is_dict)
             THEN /\ pc' = "error"
                  /\ error' = "EncodeError"
                  /\ UNCHANGED <<encode_state, states_created, arg_values,
                                 arg_eop, idx>>
             ELSE /\ EnterEncode(values, eop)
                  /\ UNCHANGED error
    /\ arg_bit_position' = 0
    /\ UNCHANGED dbVars
    /\ UNCHANGED <<structVars, trace, result, warnings, static_result>>
    /\ UNCHANGED decVars

\* BasicStructure.coded_const_prefix(request_prefix)
CodedConstPrefix ==
    /\ pc = "idle"
    /\ \E request_prefix \in Messages :
          encode_state' = PrefixEncodeState(request_prefix)
    /\ states_created' = states_created + 1
    /\ idx' = 1
    /\ pc' = IF Len(parameters) = 0 THEN "prefix_done" ELSE "prefix"
    /\ result' = <<>>
    /\ UNCHANGED dbVars
    /\ UNCHANGED <<structVars, arg_values, arg_eop, arg_bit_position,
                   arg_is_dict, trace, error, warnings, static_result>>
    /\ UNCHANGED decVars

\* one iteration of the loop of coded_const_prefix, or the break out of it
PrefixStep ==
    /\ pc = "prefix"
    /\ IF IsPrefixKind(parameters[idx])
       THEN LET out == encode_into_pdu(parameters[idx], encode_state)
            IN /\ trace' = Append(trace, Step("prefix", idx))
               /\ encode_state' =
                     [encode_state EXCEPT !.coded_message = out.coded_message]
               /\ IF out.error # "none"
                  THEN /\ pc' = "error"
                       /\ error' = out.error
                       /\ UNCHANGED <<idx, result>>
                  ELSE /\ pc' = AfterLoop("prefix_done")
                       /\ idx' = idx + 1
                       /\ result' = IF idx = Len(parameters)
                                    THEN out.coded_message ELSE result
                       /\ UNCHANGED error
       ELSE /\ pc' = "prefix_done"
            /\ result' = encode_state.coded_message
            /\ UNCHANGED <<trace, encode_state, idx, error>>
    /\ UNCHANGED dbVars
    /\ UNCHANGED <<structVars, arg_values, arg_eop, arg_bit_position,
                   arg_is_dict, warnings, static_result, states_created>>
    /\ UNCHANGED decVars

FirstPass ==
    /\ pc = "pass1"
    /\ LET out == FirstPassParam(parameters, idx, encode_state, arg_eop)
       IN /\ encode_state' = out.state
          /\ arg_values' = CallerValues(arg_values, out.state.parameter_values)
          /\ trace' = Append(trace, Step("pass1", idx))
          /\ IF out.error # "none"
             THEN /\ pc' = "error"
                  /\ error' = out.error
                  /\ UNCHANGED idx
             ELSE /\ pc' = AfterLoop("pad")
                  /\ idx' = idx + 1
                  /\ UNCHANGED error
    /\ UNCHANGED dbVars
    /\ UNCHANGED <<structVars, arg_eop, arg_bit_position, arg_is_dict,
                   result, warnings, static_result, states_created>>
    /\ UNCHANGED decVars

Pad ==
    /\ pc = "pad"
    /\ encode_state' = PadToByteSize(encode_state, byte_size)
    /\ trace' = Append(trace, Step("pad", 0))
    /\ idx' = 1
    /\ pc' = IF Len(parameters) = 0 THEN "validate" ELSE "pass2"
    /\ UNCHANGED dbVars
    /\ UNCHANGED <<structVars, arg_values, arg_eop, arg_bit_position,
                   arg_is_dict, result, error, warnings, static_result,
                   states_created>>
    /\ UNCHANGED decVars

SecondPass ==
    /\ pc = "pass2"
    /\ LET out == SecondPassParam(parameters, idx, encode_state)
       IN /\ encode_state' = out.state
          /\ arg_values' = CallerValues(arg_values, out.state.parameter_values)
          /\ trace' = IF EncodesInSecondPass(parameters[idx])
                      THEN Append(trace, Step("pass2", idx))
                      ELSE trace
          /\ IF out.error # "none"
             THEN /\ pc' = "error"
                  /\ error' = out.error
                  /\ UNCHANGED idx
             ELSE /\ pc' = AfterLoop("validate")
                  /\ idx' = idx + 1
                  /\ UNCHANGED error
    /\ UNCHANGED dbVars
    /\ UNCHANGED <<structVars, arg_eop, arg_bit_position, arg_is_dict,
                   result, warnings, static_result, states_created>>
    /\ UNCHANGED decVars

Validate ==
    /\ pc = "validate"
    /\ LET v == validate_coded_message(parameters, byte_size,
                                       encode_state.coded_message)
       IN /\ warnings' = warnings \o v.warnings
          /\ error' = v.error
          /\ pc' = IF v.error = "none" THEN "done" ELSE "error"
          /\ result' = IF v.error = "none" THEN encode_state.coded_message
                       ELSE result
    /\ trace' = Append(trace, Step("validate", 0))
    /\ UNCHANGED dbVars
    /\ UNCHANGED <<structVars, idx, encode_state, arg_values, arg_eop,
                   arg_bit_position, arg_is_dict, static_result,
                   states_created>>
    /\ UNCHANGED decVars

(***************************************************************************)
(* convert_bytes_to_physical and decode, step by step                      *)
(***************************************************************************)
NewDecodeState(msg, values, cursor) ==
    [coded_message |-> msg, parameter_values |-> values,
     cursor_position |-> cursor]

NoDecodeState == NewDecodeState(<<>>, EmptyMap, 0)

\* Parameter.decode_from_pdu: the bytes of the parameter, read at the explicit
\* byte position, else at the cursor, are the value, the most significant
\* byte first; a message too short for it is a DecodeError, a
\* constant that does not match is a warning.  A reserved parameter reads
\* nothing: it has no value and reports the position behind its bits.
decode_from_pdu(p, ds) ==
    LET pos == IF p.byte_position # None THEN p.byte_position
               ELSE ds.cursor_position
        stop == pos + ByteLength(p)
    IN IF p.kind = "RESERVED"
       THEN [error |-> "none", value |-> None, cursor_position |-> stop,
             warnings |-> <<>>]
       ELSE IF stop > Len(ds.coded_message)
       THEN [error |-> "DecodeError", value |-> 0, cursor_position |-> pos,
             warnings |-> <<>>]
       ELSE LET val == bytes_to_int(SubSeq(ds.coded_message, pos + 1, stop))
            IN [error |-> "none", value |-> val, cursor_position |-> stop,
                warnings |-> IF p.kind = "CODED-CONST" /\ val # p.coded_value
                             THEN <<"constant mismatch">> ELSE <<>>]

\* the alignment check of convert_bytes_to_physical
DecodeMisaligned(bit_position) == bit_position # 0

\* an inner state that takes over the values of the enclosing decode state
InnerDecodeState_shared(ds) ==
    [coded_message |-> SliceFrom(ds.coded_message, ds.cursor_position),
     parameter_values |-> ds.parameter_values, cursor_position |-> 0]

\* the window of the message the structure decodes and its fresh inner state
InnerDecodeState(ds) ==
    NewDecodeState(SliceFrom(ds.coded_message, ds.cursor_position), EmptyMap, 0)

\* a decoder that keeps no value
StoreValue_dropped(values, short_name, value) == values

\* inner_decode_state.parameter_values[parameter.short_name] = value
StoreValue(values, short_name, value) == MapSet(values, short_name, value)

\* a cursor that follows the last parameter
NextCursor_last(cursor, param_cursor) == param_cursor

\* the cursor of the next inner decode state
NextCursor(cursor, param_cursor) == Max(cursor, param_cursor)

\* one iteration of the decode loop
DecodeParam(params, i, ids) ==
    LET out == decode_from_pdu(params[i], ids)
    IN [error |-> out.error,
        warnings |-> out.warnings,
        value |-> out.value,
        cursor_position |-> out.cursor_position,
        state |-> IF out.error # "none" THEN ids
                  ELSE NewDecodeState(
                         ids.coded_message,
                         StoreValue(ids.parameter_values, params[i].short_name,
                                    out.value),
                         NextCursor(ids.cursor_position, out.cursor_position))]

\* a return value that gives the inner cursor for the new cursor
DecodeReturnValue_inner(ds, ids) ==
    [values |-> ids.parameter_values, cursor_position |-> ids.cursor_position]

\* the return value of convert_bytes_to_physical
DecodeReturnValue(ds, ids) ==
    [values |-> ids.parameter_values,
     cursor_position |-> ds.cursor_position + ids.cursor_position]

\* a length check that raises instead of warning
decode_size_check_raise(msg, cursor_position) ==
    [error |-> IF Len(msg) # cursor_position THEN "DecodeError" ELSE "none",
     warnings |-> <<>>]

\* decode's comparison of the message length with the returned cursor
decode_size_check(msg, cursor_position) ==
    [error |-> "none",
     warnings |-> IF Len(msg) # cursor_position THEN <<"size mismatch">>
                  ELSE <<>>]

(***************************************************************************)
(* The calls as functions of their arguments.                              *)
(***************************************************************************)
\* the one element of a set of one element
The(S) == CHOOSE x \in S : TRUE

RECURSIVE FirstPassLoop(_, _, _, _)
FirstPassLoop(params, i, es, is_end_of_pdu) ==
    IF i > Len(params) THEN [error |-> "none", state |-> es]
    ELSE The({IF out.error # "none" THEN out
              ELSE FirstPassLoop(params, i + 1, out.state, is_end_of_pdu) :
                 out \in {FirstPassParam(params, i, es, is_end_of_pdu)}})

RECURSIVE SecondPassLoop(_, _, _)
SecondPassLoop(params, i, es) ==
    IF i > Len(params) THEN [error |-> "none", state |-> es]
    ELSE The({IF out.error # "none" THEN out
              ELSE SecondPassLoop(params, i + 1, out.state) :
                 out \in {SecondPassParam(params, i, es)}})

convert_physical_to_internal(params, size, values, is_end_of_pdu) ==
    LET first == FirstPassLoop(params, 1, NewEncodeState(values), is_end_of_pdu)
        second == SecondPassLoop(params, 1, PadToByteSize(first.state, size))
        check == validate_coded_message(params, size,
                                        second.state.coded_message)
    IN IF first.error # "none"
       THEN [error |-> first.error, coded_message |-> <<>>, warnings |-> <<>>]
       ELSE IF second.error # "none"
       THEN [error |-> second.error, coded_message |-> <<>>, warnings |-> <<>>]
       ELSE [error |-> check.error,
             coded_message |-> IF check.error = "none"
                               THEN second.state.coded_message ELSE <<>>,
             warnings |-> check.warnings]

RECURSIVE DecodeLoop(_, _, _, _)
DecodeLoop(params, i, ids, warned) ==
    IF i > Len(params)
    THEN [error |-> "none", state |-> ids, warnings |-> warned]
    ELSE The({IF out.error # "none"
              THEN [error |-> out.error, state |-> ids, warnings |-> warned]
              ELSE DecodeLoop(params, i + 1, out.state,
                              warned \o out.warnings) :
                 out \in {DecodeParam(params, i, ids)}})

convert_bytes_to_physical(params, ds, bit_position) ==
    LET loop == DecodeLoop(params, 1, InnerDecodeState(ds), <<>>)
        ret == DecodeReturnValue(ds, loop.state)
    IN IF DecodeMisaligned(bit_position)
       THEN [error |-> "DecodeError", values |-> EmptyMap,
             cursor_position |-> 0, warnings |-> <<>>]
       ELSE [error |-> loop.error, values |-> ret.values,
             cursor_position |-> ret.cursor_position,
             warnings |-> loop.warnings]

decode(params, msg) ==
    LET out == convert_bytes_to_physical(params,
                                         NewDecodeState(msg, EmptyMap, 0), 0)
        chk == decode_size_check(msg, out.cursor_position)
    IN IF out.error # "none" THEN out
       ELSE [error |-> chk.error, values |-> out.values,
             cursor_position |-> out.cursor_position,
             warnings |-> out.warnings \o chk.warnings]

EnterDecode(ds) ==
    /\ decode_state' = ds
    /\ inner' = InnerDecodeState(ds)
    /\ idx' = 1
    /\ pc' = IF Len(parameters) = 0 THEN "dec_return" ELSE "dec"

\* BasicStructure.decode(message)
Decode ==
    /\ pc = "idle"
    /\ \E msg \in Messages : EnterDecode(NewDecodeState(msg, EmptyMap, 0))
    /\ dec_entry' = "decode"
    /\ arg_bit_position' = 0
    /\ UNCHANGED dbVars
    /\ UNCHANGED <<structVars, error, warnings, static_result, seen, reported,
                   dec_result>>
    /\ UNCHANGED encVars

\* BasicStructure.convert_bytes_to_physical(decode_state, bit_position)
ConvertBytesToPhysical ==
    /\ pc = "idle"
    /\ dec_entry' = "convert_bytes_to_physical"
    /\ \E msg \in Messages, cursor \in 0..MaxMsgLen,
          bit_position \in BitPositions :
          /\ cursor <= Len(msg)
          /\ arg_bit_position' = bit_position
          /\ IF DecodeMisaligned(bit_position)
             THEN /\ pc' = "error"
                  /\ error' = "DecodeError"
                  /\ UNCHANGED <<decode_state, inner, idx>>
             ELSE /\ EnterDecode(NewDecodeState(msg, [enclosing |-> 1], cursor))
                  /\ UNCHANGED error
    /\ UNCHANGED dbVars
    /\ UNCHANGED <<structVars, warnings, static_result, seen, reported,
                   dec_result>>
    /\ UNCHANGED encVars

DecodeStep ==
    /\ pc = "dec"
    /\ LET out == DecodeParam(parameters, idx, inner)
       IN /\ seen' = Append(seen, inner.parameter_values)
          /\ inner' = out.state
          /\ warnings' = warnings \o out.warnings
          /\ IF out.error # "none"
             THEN /\ pc' = "error"
                  /\ error' = out.error
                  /\ UNCHANGED <<idx, reported>>
             ELSE /\ pc' = AfterLoop("dec_return")
                  /\ idx' = idx + 1
                  /\ reported' = Append(reported,
                                        [value |-> out.value,
                                         cursor_position |-> out.cursor_position])
                  /\ UNCHANGED error
    /\ UNCHANGED dbVars
    /\ UNCHANGED <<structVars, arg_bit_position, static_result, decode_state,
                   dec_entry, dec_result>>
    /\ UNCHANGED encVars

DecodeReturn ==
    /\ pc = "dec_return"
    /\ LET ret == DecodeReturnValue(decode_state, inner)
           chk == decode_size_check(decode_state.coded_message,
                                    ret.cursor_position)
       IN IF dec_entry = "decode"
          THEN /\ warnings' = warnings \o chk.warnings
               /\ error' = chk.error
               /\ pc' = IF chk.error = "none" THEN "done" ELSE "error"
               /\ dec_result' = IF chk.error = "none" THEN ret ELSE dec_result
          ELSE /\ dec_result' = ret
               /\ pc' = "done"
               /\ UNCHANGED <<warnings, error>>
    /\ UNCHANGED dbVars
    /\ UNCHANGED <<structVars, idx, arg_bit_position, static_result,
                   decode_state, inner, seen, reported, dec_entry>>
    /\ UNCHANGED encVars

(***************************************************************************)
(* The database (odxtools/database.py): the documents of an archive, the   *)
(* objects read from them and the link database refresh builds.            *)
(*                                                                         *)
(* A document is a record kind, model_version, short_name, items, local.   *)
(* local is the set of short names of the diagnostic communications its    *)
(* layer declares.  Its MODEL-VERSION attribute is the sequence of its     *)
(* dot-separated fields, each a sequence of decimal digits, and <<>> when  *)
(* the attribute is missing.  The items are the parameters of the          *)
(* document's structure: each declares an identifier or holds a reference. *)
(***************************************************************************)
MaxDocs == 2        \* most documents in an archive, most containers set
MaxRefreshes == 2   \* most calls of refresh on one database
MaxLayers == 3      \* most containers in an archive of layers that inherit

OwnIds == <<"o1", "o2", "o3", "o4", "o5">>

\* the short names of containers, in their sort order
LayerNames == <<"a", "b", "c", "d">>
ContainerNames == SubSeq(LayerNames, 1, 2)

Decl(id) == [tag |-> "DECL", id |-> id]
Ref(id) == [tag |-> "REF", id |-> id]

\* the library reference of a program code, the short-name reference of a
\* layer to a diagnostic communication
LibraryRef(id) == [tag |-> "LIBRARY-REF", id |-> id]
SnRef(short_name) == [tag |-> "SNREF", id |-> short_name]

\* the parameter lists of the documents: "y" is declared nowhere
ItemLists == {<<Ref("x")>>, <<Decl("x"), Ref("x")>>, <<Ref("y")>>}

\* MODEL-VERSION "2.2", "2.2.0", missing
DocHeads ==
    {<<"DIAG-LAYER-CONTAINER", <<<<2>>, <<2>>>>>>,
     <<"COMPARAM-SUBSET", <<<<2>>, <<2>>, <<0>>>>>>,
     <<"COMPARAM-SPEC", <<>>>>,
     <<"COMPARAM-SPEC", <<<<2>>, <<2>>>>>>}

MkDoc(head, name, items) ==
    [kind |-> head[1], elements |-> {head[1]}, model_version |-> head[2],
     short_name |-> name, items |-> items, local |-> {}]

\* MODEL-VERSION missing, "2", "1.9", "2.0", "2.1", "2.2", "2.2.0", "2.10",
\* "3.0"
VersionTexts ==
    {<<>>, <<<<2>>>>, <<<<1>>, <<9>>>>, <<<<2>>, <<0>>>>, <<<<2>>, <<1>>>>,
     <<<<2>>, <<2>>>>, <<<<2>>, <<2>>, <<0>>>>, <<<<2>>, <<1, 0>>>>,
     <<<<3>>, <<0>>>>}

ElementTags == {"DIAG-LAYER-CONTAINER", "COMPARAM-SUBSET", "COMPARAM-SPEC"}

\* document roots with any of the three elements and any of the versions
Roots ==
    {[kind |-> "ODX", elements |-> e, model_version |-> v,
      short_name |-> ContainerNames[1], items |-> items, local |-> {}] :
        e \in SUBSET ElementTags, v \in VersionTexts, items \in ItemLists}

Docs ==
    {MkDoc(h, ContainerNames[n], items) :
        h \in DocHeads, n \in 1..Len(ContainerNames), items \in ItemLists}

ContainerDocs == {d \in Docs : d.kind = "DIAG-LAYER-CONTAINER"}

\* a file suffix is the sequence of its characters
OdxPrefix == <<".", "o", "d", "x">>
XmlSuffix == <<".", "x", "m", "l">>

\* the file suffix of a document of each kind: .odx-d, .odx-cs, .odx-c
SuffixOf(kind) ==
    CASE kind = "DIAG-LAYER-CONTAINER" -> OdxPrefix \o <<"-", "d">>
      [] kind = "COMPARAM-SUBSET" -> OdxPrefix \o <<"-", "c", "s">>
      [] OTHER -> OdxPrefix \o <<"-", "c">>

\* a member of the archive that is no ODX document
IndexMember ==
    [name |-> 0, suffix |-> XmlSuffix,
     doc |-> MkDoc(<<"DIAG-LAYER-CONTAINER", <<>>>>, "a", <<Decl("x")>>)]

\* file names are numbers, ordered as the names they stand for
MemberOf(i, d) == [name |-> i, suffix |-> SuffixOf(d.kind), doc |-> d]

NoZip == [given |-> FALSE, members |-> {}]

ZipOf(docs) ==
    [given |-> TRUE,
     members |-> {IndexMember}
                    \cup {MemberOf(i, docs[i]) : i \in 1..Len(docs)}]

Zips == {ZipOf(docs) : docs \in UNION {[1..n -> Docs] : n \in 0..MaxDocs}}

NoFile == [given |-> FALSE, doc |-> IndexMember.doc]
Files == {[given |-> TRUE, doc |-> d] : d \in Docs}

\* every order the archive may list its members in
Listings(members) ==
    {l \in [1..Cardinality(members) -> members] :
        \A i, j \in 1..Cardinality(members) : l[i] = l[j] => i = j}

(***************************************************************************)
(* Helpers: list.sort, dict.update, int()                                  *)
(***************************************************************************)
\* s sorted by the keys k (k[i] the key of s[i]), equal keys keeping order
StableSort(s, k) ==
    LET n == Len(s)
        Before(i, j) == k[i] < k[j] \/ (k[i] = k[j] /\ i < j)
        Rank(i) == Cardinality({j \in 1..n : Before(j, i)}) + 1
    IN [r \in 1..n |-> s[CHOOSE i \in 1..n : Rank(i) = r]]

\* d1.update(d2)
Update(d1, d2) ==
    [k \in DOMAIN d1 \cup DOMAIN d2 |->
        IF k \in DOMAIN d2 THEN d2[k] ELSE d1[k]]

\* a version that keeps the first digit of every field only
version_firstdigit(v) == [i \in 1..Len(v) |-> v[i][1]]

\* int() of a string of decimal digits
RECURSIVE IntOf(_)
IntOf(digits) ==
    IF digits = <<>> THEN 0
    ELSE 10 * IntOf(SubSeq(digits, 1, Len(digits) - 1)) + digits[Len(digits)]

\* version(v): tuple(map(int, v.split(".")))
version(v) == [i \in 1..Len(v) |-> IntOf(v[i])]

\* a >= b on tuples of integers
RECURSIVE TupleGE(_, _)
TupleGE(a, b) ==
    IF b = <<>> THEN TRUE
    ELSE IF a = <<>> THEN FALSE
    ELSE IF a[1] # b[1] THEN a[1] > b[1]
    ELSE TupleGE(Tail(a), Tail(b))

\* root.attrib.get("MODEL-VERSION", "2.0")
ModelVersionOf(doc) ==
    IF doc.model_version = <<>> THEN <<<<2>>, <<0>>>> ELSE doc.model_version

\* names taken in the order the archive lists them
SortNames_asListed(names) == names

\* names.sort()
SortNames(names) == StableSort(names, [i \in 1..Len(names) |-> names[i].name])

\* str.startswith
StartsWith(text, prefix) ==
    Len(text) >= Len(prefix) /\ SubSeq(text, 1, Len(prefix)) = prefix

\* Path(zip_member).suffix.startswith(".odx")
IsOdxSuffix(suffix) == StartsWith(suffix, OdxPrefix)

\* short_name_as_key
short_name_as_key(obj) ==
    CHOOSE r \in 1..Len(LayerNames) : LayerNames[r] = obj.short_name

SortByShortName(objs) ==
    StableSort(objs, [i \in 1..Len(objs) |-> short_name_as_key(objs[i])])

(***************************************************************************)
(* The objects read from the documents.  An object is a record oid, kind,  *)
(* short_name, items, bound, local, view, finalized: oid tells objects     *)
(* apart, bound[j] is the entity the reference of item j is bound to,      *)
(* NoEntity before, view is the finalized view of the object's layer: the  *)
(* short names of its diagnostic communications, each with the object that *)
(* declares it.  An entity is the object itself (item 0), one of its items *)
(* or one of the communications it declares.                               *)
(***************************************************************************)
Entity(oid, j) == [oid |-> oid, item |-> j]
NoEntity == Entity(0, 0)
LocalEntity(oid, short_name) ==
    [oid |-> oid, item |-> None, short_name |-> short_name]

\* DiagLayerContainer.from_et, ComparamSubset.from_et, ComparamSpec.from_et
from_et(doc, oid) ==
    [oid |-> oid, kind |-> doc.kind, short_name |-> doc.short_name,
     items |-> doc.items,
     bound |-> [j \in 1..Len(doc.items) |-> NoEntity],
     local |-> doc.local, view |-> EmptyMap,
     finalized |-> FALSE]

\* the layers of a container: one protocol and one ECU variant
Layer(obj, variant) == [oid |-> obj.oid, variant_type |-> variant]
protocols(obj) == <<Layer(obj, "PROTOCOL")>>
ecu_variants(obj) == <<Layer(obj, "ECU-VARIANT")>>
diag_layers(obj) == protocols(obj) \o ecu_variants(obj)

\* Parameter._build_odxlinks
param_build_odxlinks(obj, j) ==
    IF obj.items[j].tag = "DECL"
    THEN [k \in {obj.items[j].id} |-> Entity(obj.oid, j)]
    ELSE EmptyMap

RECURSIVE build_params(_, _, _)
build_params(obj, j, links) ==
    IF j > Len(obj.items) THEN links
    ELSE build_params(obj, j + 1, Update(links, param_build_odxlinks(obj, j)))

\* BasicStructure._build_odxlinks: the object's own id, then its parameters
build_odxlinks(obj) ==
    build_params(obj, 1, [k \in {OwnIds[obj.oid]} |-> Entity(obj.oid, 0)])

\* OdxLinkDatabase.resolve for the reference of item j: the entity
\* registered under its identifier; an identifier that is absent is a
\* KeyError in strict mode, and else a recorded warning that leaves the
\* reference unresolved
resolve_by_id(obj, j, odxlinks) ==
    IF obj.items[j].id \in DOMAIN odxlinks
    THEN [error |-> "none", warnings |-> <<>>,
          obj |-> [obj EXCEPT !.bound[j] = odxlinks[obj.items[j].id]]]
    ELSE IF strict_mode
    THEN [error |-> "KeyError", warnings |-> <<>>, obj |-> obj]
    ELSE [error |-> "none", warnings |-> <<"unresolved reference">>,
          obj |-> [obj EXCEPT !.bound[j] = NoEntity]]

\* Parameter._resolve_odxlinks: a reference is looked up by its identifier;
\* the library references of a program code are not resolved
param_resolve_odxlinks(obj, j, odxlinks) ==
    IF obj.items[j].tag # "REF"
    THEN [error |-> "none", warnings |-> <<>>, obj |-> obj]
    ELSE resolve_by_id(obj, j, odxlinks)

RECURSIVE resolve_params(_, _, _, _)
resolve_params(obj, j, odxlinks, warned) ==
    IF j > Len(obj.items)
    THEN [error |-> "none", warnings |-> warned, obj |-> obj]
    ELSE LET r == param_resolve_odxlinks(obj, j, odxlinks)
         IN IF r.error # "none" THEN [r EXCEPT !.warnings = warned]
            ELSE resolve_params(r.obj, j + 1, odxlinks, warned \o r.warnings)

\* a resolve that looks at the first parameter only
resolve_odxlinks_first(obj, odxlinks) ==
    IF obj.items = <<>>
    THEN [error |-> "none", warnings |-> <<>>, obj |-> obj]
    ELSE param_resolve_odxlinks(obj, 1, odxlinks)

\* BasicStructure._resolve_odxlinks
resolve_odxlinks(obj, odxlinks) == resolve_params(obj, 1, odxlinks, <<>>)

(***************************************************************************)
(* The inheritance materializer.  A parent reference is a reference bound  *)
(* to the identifier of another container: the layer of that container is  *)
(* a parent of the layer of the object.                                    *)
(***************************************************************************)
LayerOf(layers, oid) ==
    layers[CHOOSE i \in 1..Len(layers) : layers[i].oid = oid]

IsParentRef(obj, j, layers) ==
    /\ obj.items[j].tag = "REF"
    /\ obj.bound[j] # NoEntity
    /\ obj.bound[j].item = 0
    /\ obj.bound[j].oid # obj.oid
    /\ \E i \in 1..Len(layers) : layers[i].oid = obj.bound[j].oid

\* the parents of the object's layer, in declaration order
RECURSIVE parent_layers(_, _, _)
parent_layers(obj, j, layers) ==
    IF j > Len(obj.items) THEN <<>>
    ELSE (IF IsParentRef(obj, j, layers) THEN <<obj.bound[j].oid>> ELSE <<>>)
            \o parent_layers(obj, j + 1, layers)

\* the layers reached from the given ones by at most n parent references
RECURSIVE Ancestors(_, _, _)
Ancestors(oids, layers, n) ==
    IF n = 0 THEN oids
    ELSE LET ParentsOf(oid) ==
                 LET ps == parent_layers(LayerOf(layers, oid), 1, layers)
                 IN {ps[k] : k \in 1..Len(ps)}
         IN Ancestors(oids \cup UNION {ParentsOf(oid) : oid \in oids},
                      layers, n - 1)

\* the parent chain of the object's layer returns to it
InheritanceCycle(obj, layers) ==
    LET ps == parent_layers(obj, 1, layers)
    IN obj.oid \in Ancestors({ps[k] : k \in 1..Len(ps)}, layers, Len(layers))

\* the finalized entities of a parent merged into the view: an entity is
\* added only if the view has none of its short name
merge_parent(view, parent_view) ==
    [n \in DOMAIN view \cup DOMAIN parent_view |->
        IF n \in DOMAIN view THEN view[n] ELSE parent_view[n]]

\* the view of the object's layer: its own entities, then for each parent in
\* declaration order what the finalized view of the parent holds
RECURSIVE merge_parents(_, _, _, _)
merge_parents(view, parents, k, layers) ==
    IF k > Len(parents) THEN view
    ELSE merge_parents(merge_parent(view, LayerOf(layers, parents[k]).view),
                       parents, k + 1, layers)

\* the short-name reference of item j, looked up in the view of the layer;
\* a name the view does not have is a KeyError in strict mode, and else a
\* recorded warning that leaves the reference unresolved
resolve_snref(obj, j) ==
    IF obj.items[j].tag # "SNREF"
    THEN [error |-> "none", warnings |-> <<>>, obj |-> obj]
    ELSE IF obj.items[j].id \in DOMAIN obj.view
    THEN [error |-> "none", warnings |-> <<>>,
          obj |-> [obj EXCEPT !.bound[j] =
                      LocalEntity(obj.view[obj.items[j].id], obj.items[j].id)]]
    ELSE IF strict_mode
    THEN [error |-> "KeyError", warnings |-> <<>>, obj |-> obj]
    ELSE [error |-> "none", warnings |-> <<"unresolved reference">>,
          obj |-> [obj EXCEPT !.bound[j] = NoEntity]]

RECURSIVE resolve_snrefs(_, _, _)
resolve_snrefs(obj, j, warned) ==
    IF j > Len(obj.items)
    THEN [error |-> "none", warnings |-> warned, obj |-> obj]
    ELSE LET r == resolve_snref(obj, j)
         IN IF r.error # "none" THEN [r EXCEPT !.warnings = warned]
            ELSE resolve_snrefs(r.obj, j + 1, warned \o r.warnings)

\* DiagLayerContainer._finalize_init: the inherited objects of the layer are
\* sorted out, then its short-name references; layers are the containers of
\* the database as they are when the call is made
finalize_init(obj, layers) ==
    IF InheritanceCycle(obj, layers)
    THEN [error |-> "InheritanceCycle", warnings |-> <<>>, obj |-> obj]
    ELSE LET own == [n \in obj.local |-> obj.oid]
             view == merge_parents(own, parent_layers(obj, 1, layers), 1,
                                   layers)
             r == resolve_snrefs([obj EXCEPT !.view = view], 1, <<>>)
         IN IF r.error # "none" THEN r
            ELSE [r EXCEPT !.obj = [r.obj EXCEPT !.finalized = TRUE]]

(***************************************************************************)
(* Database.__init__                                                       *)
(***************************************************************************)
EmptyDatabase ==
    [diag_layer_containers |-> <<>>, comparam_subsets |-> <<>>,
     comparam_specs |-> <<>>, refreshed |-> FALSE, diag_layers |-> <<>>,
     protocols |-> <<>>, ecus |-> <<>>, odxlinks |-> EmptyMap]

\* the members read from the archive, in the order they are read
ReadArchive(listing) ==
    LET IsDocument(member) == IsOdxSuffix(member.suffix)
    IN SelectSeq(SortNames(listing), IsDocument)

\* the objects made of the picked documents, in document order
ObjectsRead(picked, kind) ==
    [i \in 1..Len(picked) |->
        [from_et(picked[i].doc, picked[i].name) EXCEPT !.kind = kind]]

HasContainer(doc) == "DIAG-LAYER-CONTAINER" \in doc.elements

AtLeast22(doc) ==
    TupleGE(version(ModelVersionOf(doc)), version(<<<<2>>, <<2>>>>))

HasSubset(doc) == AtLeast22(doc) /\ "COMPARAM-SUBSET" \in doc.elements

HasSpec(doc) == ~AtLeast22(doc) /\ "COMPARAM-SPEC" \in doc.elements

\* the three sorted lists of the constructor
LoadDocuments(documents) ==
    LET WithContainer(member) == HasContainer(member.doc)
        WithSubset(member) == HasSubset(member.doc)
        WithSpec(member) == HasSpec(member.doc)
        dlcs == ObjectsRead(SelectSeq(documents, WithContainer),
                            "DIAG-LAYER-CONTAINER")
        comparam_subsets == ObjectsRead(SelectSeq(documents, WithSubset),
                                        "COMPARAM-SUBSET")
        comparam_specs == ObjectsRead(SelectSeq(documents, WithSpec),
                                      "COMPARAM-SPEC")
    IN [EmptyDatabase EXCEPT
          !.diag_layer_containers = SortByShortName(dlcs),
          !.comparam_subsets = SortByShortName(comparam_subsets),
          !.comparam_specs = SortByShortName(comparam_specs)]

(***************************************************************************)
(* Database.refresh                                                        *)
(***************************************************************************)
RECURSIVE Chain(_)
Chain(lists) == IF lists = <<>> THEN <<>> ELSE Head(lists) \o Chain(Tail(lists))

\* a refresh that goes on with the link database it finds
RefreshEntry_keepingLinks(d) ==
    LET dlcs == d.diag_layer_containers
    IN [d EXCEPT
          !.diag_layers = Chain([i \in 1..Len(dlcs) |-> diag_layers(dlcs[i])]),
          !.protocols = Chain([i \in 1..Len(dlcs) |-> protocols(dlcs[i])]),
          !.ecus = Chain([i \in 1..Len(dlcs) |-> ecu_variants(dlcs[i])]),
          !.refreshed = TRUE]

\* the wrapper lists and the new, empty link database
RefreshEntry(d) ==
    LET dlcs == d.diag_layer_containers
    IN [d EXCEPT
          !.diag_layers = Chain([i \in 1..Len(dlcs) |-> diag_layers(dlcs[i])]),
          !.protocols = Chain([i \in 1..Len(dlcs) |-> protocols(dlcs[i])]),
          !.ecus = Chain([i \in 1..Len(dlcs) |-> ecu_variants(dlcs[i])]),
          !.odxlinks = EmptyMap,
          !.refreshed = TRUE]

PhaseSteps(phase, list, n) ==
    [i \in 1..n |-> [phase |-> phase, list |-> list, index |-> i]]

\* a refresh that builds and resolves one list after the other
RefreshPlan_interleaved(d) ==
    PhaseSteps("build", "comparam_subsets", Len(d.comparam_subsets))
    \o PhaseSteps("resolve", "comparam_subsets", Len(d.comparam_subsets))
    \o PhaseSteps("build", "diag_layer_containers",
                  Len(d.diag_layer_containers))
    \o PhaseSteps("resolve", "diag_layer_containers",
                  Len(d.diag_layer_containers))
    \o PhaseSteps("finalize", "diag_layer_containers",
                  Len(d.diag_layer_containers))

\* the loops of refresh, in the order the code runs them
RefreshPlan(d) ==
    PhaseSteps("build", "comparam_subsets", Len(d.comparam_subsets))
    \o PhaseSteps("build", "diag_layer_containers",
                  Len(d.diag_layer_containers))
    \o PhaseSteps("resolve", "comparam_subsets", Len(d.comparam_subsets))
    \o PhaseSteps("resolve", "diag_layer_containers",
                  Len(d.diag_layer_containers))
    \o PhaseSteps("finalize", "diag_layer_containers",
                  Len(d.diag_layer_containers))

\* one iteration of one loop of refresh
ApplyStep(d, step) ==
    LET obj == d[step.list][step.index]
    IN CASE step.phase = "build" ->
              [error |-> "none", warnings |-> <<>>,
               db |-> [d EXCEPT !.odxlinks = Update(@, build_odxlinks(obj))]]
         [] step.phase = "resolve" ->
              LET r == resolve_odxlinks(obj, d.odxlinks)
              IN [error |-> r.error, warnings |-> r.warnings,
                  db |-> [d EXCEPT ![step.list][step.index] = r.obj]]
         [] OTHER ->
              LET r == finalize_init(obj, d.diag_layer_containers)
              IN [error |-> r.error, warnings |-> r.warnings,
                  db |-> [d EXCEPT ![step.list][step.index] = r.obj]]

DbStep(step, obj) == [phase |-> step.phase, list |-> step.list, oid |-> obj.oid]

codecVars == <<parameters, byte_size, listed, arg_bit_position, result,
               static_result, encode_state, states_created,
               arg_values, arg_eop, arg_is_dict>>

\* the start of refresh, as the last statement of the constructor or called
EnterRefresh(d) ==
    LET entered == RefreshEntry(d)
    IN /\ db' = entered
       /\ refresh_calls' = refresh_calls + 1
       /\ idx' = 1
       /\ trace' = <<>>
       /\ UNCHANGED warnings
       /\ IF RefreshPlan(entered) = <<>>
          THEN pc' = "ready" /\ constructed' = TRUE
          ELSE pc' = "refreshing" /\ UNCHANGED constructed

\* Database(pdx_zip=..., odx_d_file_name=...)
Construct ==
    /\ pc = "idle"
    /\ IF ~pdx_zip.given /\ ~odx_d_file_name.given
       THEN /\ db' = EmptyDatabase
            /\ constructed' = TRUE
            /\ pc' = "constructed"
            /\ UNCHANGED <<idx, trace, error, warnings, refresh_calls>>
       ELSE IF pdx_zip.given /\ odx_d_file_name.given
       THEN /\ pc' = "error"
            /\ error' = "TypeError"
            /\ UNCHANGED <<db, constructed, idx, trace, warnings,
                           refresh_calls>>
       ELSE /\ \E documents \in
                  IF pdx_zip.given
                  THEN {ReadArchive(l) : l \in Listings(pdx_zip.members)}
                  ELSE {<<MemberOf(1, odx_d_file_name.doc)>>} :
                  EnterRefresh(LoadDocuments(documents))
            /\ UNCHANGED error
    /\ UNCHANGED <<pdx_zip, odx_d_file_name, db_before, observed,
                   strict_mode>>
    /\ UNCHANGED codecVars
    /\ UNCHANGED decVars

\* Database.refresh(), called on a database the constructor returned
Refresh ==
    /\ constructed
    /\ pc \in {"constructed", "ready", "assigned"}
    /\ refresh_calls < MaxRefreshes
    /\ db_before' = db
    /\ EnterRefresh(db)
    /\ UNCHANGED <<pdx_zip, odx_d_file_name, error, observed, strict_mode>>
    /\ UNCHANGED codecVars
    /\ UNCHANGED decVars

RefreshStep ==
    /\ pc = "refreshing"
    /\ LET plan == RefreshPlan(db)
           step == plan[idx]
           out == ApplyStep(db, step)
       IN /\ db' = out.db
          /\ warnings' = warnings \o out.warnings
          /\ trace' = Append(trace, DbStep(step, db[step.list][step.index]))
          /\ IF out.error # "none"
             THEN /\ pc' = "failed"
                  /\ error' = out.error
                  /\ UNCHANGED <<idx, constructed>>
             ELSE /\ idx' = idx + 1
                  /\ pc' = IF idx = Len(plan) THEN "ready" ELSE pc
                  /\ constructed' = (constructed \/ idx = Len(plan))
                  /\ UNCHANGED error
    /\ UNCHANGED <<pdx_zip, odx_d_file_name, refresh_calls, db_before,
                   observed, strict_mode>>
    /\ UNCHANGED codecVars
    /\ UNCHANGED decVars

\* nothing read yet
NoRead ==
    [read |-> FALSE, error |-> "none", during_refresh |-> FALSE,
     odxlinks |-> EmptyMap, diag_layers |-> <<>>, protocols |-> <<>>,
     ecus |-> <<>>]

\* a reader takes db.odxlinks, db.diag_layers, db.protocols and db.ecus of a
\* database the constructor returned, a refresh running or not; the
\* attributes behind them exist once refresh has been entered
Read ==
    /\ constructed
    /\ observed' =
          IF db.refreshed
          THEN [read |-> TRUE, error |-> "none",
                during_refresh |-> (pc = "refreshing"),
                odxlinks |-> db.odxlinks, diag_layers |-> db.diag_layers,
                protocols |-> db.protocols, ecus |-> db.ecus]
          ELSE [NoRead EXCEPT !.read = TRUE, !.error = "AttributeError"]
    /\ UNCHANGED <<pc, idx, trace, error, warnings, pdx_zip,
                   odx_d_file_name, db, constructed, refresh_calls, db_before,
                   strict_mode>>
    /\ UNCHANGED codecVars
    /\ UNCHANGED decVars

\* lists of containers a caller may hand to the setter
ContainerLists ==
    UNION {{[i \in 1..n |-> from_et(docs[i], i)] : docs \in [1..n -> ContainerDocs]}
              : n \in 0..MaxDocs}

\* db.diag_layer_containers = value, on a database constructed empty
SetContainers ==
    /\ constructed
    /\ pc = "constructed"
    /\ \E value \in ContainerLists :
          db' = [db EXCEPT !.diag_layer_containers = value]
    /\ UNCHANGED <<pc, idx, trace, error, warnings, pdx_zip,
                   odx_d_file_name, constructed, refresh_calls, db_before,
                   observed, strict_mode>>
    /\ UNCHANGED codecVars
    /\ UNCHANGED decVars

\* lists a caller may put in the place of the containers: up to MaxDocs
\* containers that refer to "x", some declaring it, in the order of their
\* identifiers or against it (the setter does not sort)
ReplacementItems == {<<Ref("x")>>, <<Decl("x"), Ref("x")>>}
ReplacementLists ==
    UNION {{[i \in 1..n |->
                from_et(MkDoc(<<"DIAG-LAYER-CONTAINER", <<<<2>>, <<2>>>>>>,
                              ContainerNames[1], items[i]),
                        IF forward THEN i ELSE n + 1 - i)] :
               items \in [1..n -> ReplacementItems], forward \in BOOLEAN}
              : n \in 0..MaxDocs}

\* db.diag_layer_containers = value, on a database that has been refreshed:
\* until refresh is called again, the object is in position "assigned"
ReplaceContainers ==
    /\ constructed
    /\ pc \in {"ready", "assigned"}
    /\ \E value \in ReplacementLists :
          db' = [db EXCEPT !.diag_layer_containers = value]
    /\ pc' = "assigned"
    /\ UNCHANGED <<idx, trace, error, warnings, pdx_zip, odx_d_file_name,
                   constructed, refresh_calls, db_before, observed,
                   strict_mode>>
    /\ UNCHANGED codecVars
    /\ UNCHANGED decVars

(***************************************************************************)
(* Specifications.                                                         *)
(***************************************************************************)
InitCommon ==
    /\ pc = "idle"
    /\ idx = 0
    /\ encode_state = NoEncodeState
    /\ states_created = 0
    /\ arg_values = EmptyMap
    /\ arg_eop = FALSE
    /\ arg_bit_position = 0
    /\ arg_is_dict = TRUE
    /\ trace = <<>>
    /\ result = <<>>
    /\ error = "none"
    /\ warnings = <<>>
    /\ static_result = None
    /\ decode_state = NoDecodeState
    /\ inner = NoDecodeState
    /\ seen = <<>>
    /\ reported = <<>>
    /\ dec_entry = "none"
    /\ dec_result = [values |-> EmptyMap, cursor_position |-> 0]
    /\ listed = NoListing

\* no database
DbIdle ==
    /\ pdx_zip = NoZip
    /\ odx_d_file_name = NoFile
    /\ db = EmptyDatabase
    /\ constructed = FALSE
    /\ refresh_calls = 0
    /\ db_before = EmptyDatabase
    /\ observed = NoRead
    /\ strict_mode = TRUE

\* the encoder
Init ==
    /\ parameters \in CodecStructures
    /\ byte_size \in ByteSizes
    /\ InitCommon
    /\ DbIdle

NextEncode ==
    \/ Encode
    \/ ConvertPhysicalToBytes
    \/ ConvertPhysicalToInternal
    \/ FirstPass
    \/ Pad
    \/ SecondPass
    \/ Validate

Next == NextEncode

Spec == Init /\ [][Next]_vars

\* the encoder on structures that leave their size to be inferred
InitInferred ==
    /\ parameters \in InferredStructures
    /\ byte_size = None
    /\ InitCommon
    /\ DbIdle

SpecInferred == InitInferred /\ [][NextEncode]_vars

\* parameter lists in which a parameter may stand more than once: the
\* parameters take their short names from the first names freely, and two
\* parameters with the same fields compare equal
RepeatedKinds == {"CODED-CONST", "VALUE"}
RepeatedStructures ==
    UNION {{[i \in 1..n |-> MkParam(c[i][1], c[i][2], None, None, 8)] :
               c \in [1..n -> (1..n) \X RepeatedKinds]} : n \in 0..MaxParams}

\* the encoder on structures with repeated parameters
InitRepeated ==
    /\ parameters \in RepeatedStructures
    /\ byte_size = None
    /\ InitCommon
    /\ DbIdle

SpecRepeated == InitRepeated /\ [][NextEncode]_vars

\* structures with a length key that is defined implicitly: a parameter
\* with a PARAM-LENGTH-INFO type records its length for the key
ImplicitKinds == {"LENGTH-KEY", "PARAM-LENGTH-INFO", "VALUE"}
ImplicitStructures ==
    UNION {{[i \in 1..n |-> MkParam(i, c[i], None, None, 8)] :
               c \in [1..n -> ImplicitKinds]} : n \in 0..MaxParams}

\* structures with reserved parameters, appended or at byte 1
ReservedKinds == {"VALUE", "RESERVED"}
ReservedStructures ==
    UNION {{[i \in 1..n |-> MkParam(i, c[i][1], c[i][2], None, 8)] :
               c \in [1..n -> ReservedKinds \X {None, 1}]} : n \in 0..MaxParams}

\* the constant prefix of a structure
InitPrefix ==
    /\ parameters \in PrefixStructures
    /\ byte_size \in {None, MaxByteSize}
    /\ InitCommon
    /\ DbIdle

NextPrefix == CodedConstPrefix \/ PrefixStep

SpecPrefix == InitPrefix /\ [][NextPrefix]_vars

\* the decoder (which never reads byte_size)
InitDecode ==
    /\ parameters \in CodecStructures
    /\ byte_size \in {None, MaxByteSize}
    /\ InitCommon
    /\ DbIdle

NextDecode ==
    \/ Decode
    \/ ConvertBytesToPhysical
    \/ DecodeStep
    \/ DecodeReturn

SpecDecode == InitDecode /\ [][NextDecode]_vars

\* encoder and decoder together
NextCodec == NextEncode \/ NextDecode

SpecCodec == InitDecode /\ [][NextCodec]_vars

\* the decoder on structures with reserved parameters
InitReserved ==
    /\ parameters \in ReservedStructures
    /\ byte_size = None
    /\ InitCommon
    /\ DbIdle

SpecReserved == InitReserved /\ [][NextDecode]_vars

\* the encoder and the decoder on structures with implicit length keys
InitImplicit ==
    /\ parameters \in ImplicitStructures
    /\ byte_size \in ByteSizes
    /\ InitCommon
    /\ DbIdle

SpecImplicit == InitImplicit /\ [][NextCodec]_vars

\* structures with value parameters, length keys and table keys
KeyKinds == {"VALUE", "LENGTH-KEY", "TABLE-KEY"}
KeyStructures ==
    UNION {{[i \in 1..n |-> MkParam(i, c[i][1], c[i][2], None, 8)] :
               c \in [1..n -> KeyKinds \X Positions]} : n \in 0..MaxParams}

\* the encoder on structures with keys of both kinds
InitKeys ==
    /\ parameters \in KeyStructures
    /\ byte_size \in ByteSizes
    /\ InitCommon
    /\ DbIdle

SpecKeys == InitKeys /\ [][NextEncode]_vars

\* structure.required_parameters
RequiredParameters ==
    /\ pc = "idle"
    /\ listed' = [listed EXCEPT !.required_read = TRUE,
                                !.required = required_parameters(parameters)]
    /\ UNCHANGED <<parameters, byte_size, pc, idx, arg_bit_position, error,
                   warnings, static_result>>
    /\ UNCHANGED dbVars
    /\ UNCHANGED encVars
    /\ UNCHANGED decVars

\* structure.free_parameters
FreeParameters ==
    /\ pc = "idle"
    /\ listed' = [listed EXCEPT !.free_read = TRUE,
                                !.free = free_parameters(parameters, 1, <<>>)]
    /\ UNCHANGED <<parameters, byte_size, pc, idx, arg_bit_position, error,
                   warnings, static_result>>
    /\ UNCHANGED dbVars
    /\ UNCHANGED encVars
    /\ UNCHANGED decVars

InitListed ==
    /\ parameters \in ListedStructures
    /\ byte_size = None
    /\ InitCommon
    /\ DbIdle

NextListed == RequiredParameters \/ FreeParameters

SpecListed == InitListed /\ [][NextListed]_vars

\* static length inference, called once and then once more
GetStaticBitLength ==
    /\ pc \in {"idle", "static_done"}
    /\ static_result' = get_static_bit_length(parameters, byte_size)
    /\ pc' = IF pc = "idle" THEN "static_done" ELSE "static_again"
    /\ UNCHANGED dbVars
    /\ UNCHANGED <<structVars, idx, arg_bit_position, error, warnings>>
    /\ UNCHANGED encVars
    /\ UNCHANGED decVars

InitStatic ==
    /\ parameters \in StaticStructures
    /\ byte_size \in ByteSizes
    /\ InitCommon
    /\ DbIdle

NextStatic == GetStaticBitLength

SpecStatic == InitStatic /\ [][NextStatic]_vars

\* structures of parameters of one and of two bytes
RoundTripLengths == {8, 16}
RoundTripStructures ==
    UNION {{[i \in 1..n |-> MkParam(i, c[i][1], c[i][2], None, c[i][3])] :
               c \in [1..n -> CodecKinds \X Positions \X RoundTripLengths]}
              : n \in 0..MaxParams}

\* values of one byte and of two bytes
WideValues == {1, 258}

\* encode, then decode what encode returned
RoundTripEncode ==
    /\ pc = "idle"
    /\ \E values \in ValueMapsOver(parameters, WideValues) :
          LET out == convert_physical_to_internal(parameters, byte_size,
                                                  values, TRUE)
          IN /\ arg_values' = values
             /\ error' = out.error
             /\ result' = out.coded_message
             /\ warnings' = out.warnings
             /\ pc' = IF out.error = "none" THEN "rt_encoded" ELSE "error"
    /\ states_created' = states_created + 1
    /\ UNCHANGED dbVars
    /\ UNCHANGED <<structVars, idx, encode_state, arg_eop, arg_bit_position,
                   arg_is_dict, trace, static_result>>
    /\ UNCHANGED decVars

RoundTripDecode ==
    /\ pc = "rt_encoded"
    /\ LET out == decode(parameters, result)
       IN /\ error' = out.error
          /\ warnings' = warnings \o out.warnings
          /\ dec_result' = [values |-> out.values,
                            cursor_position |-> out.cursor_position]
          /\ pc' = IF out.error = "none" THEN "rt_decoded" ELSE "error"
    /\ dec_entry' = "decode"
    /\ UNCHANGED dbVars
    /\ UNCHANGED <<structVars, idx, arg_bit_position, static_result,
                   decode_state, inner, seen, reported>>
    /\ UNCHANGED encVars

NextRoundTrip == RoundTripEncode \/ RoundTripDecode

InitRoundTrip ==
    /\ parameters \in RoundTripStructures
    /\ byte_size \in ByteSizes
    /\ InitCommon
    /\ DbIdle

SpecRoundTrip == InitRoundTrip /\ [][NextRoundTrip]_vars

\* the database: constructed from an archive, from one file, or empty
InitDatabase ==
    /\ parameters = <<>>
    /\ byte_size = None
    /\ InitCommon
    /\ \/ pdx_zip \in Zips /\ odx_d_file_name = NoFile
       \/ pdx_zip = NoZip /\ odx_d_file_name \in {NoFile} \cup Files
       \/ pdx_zip = ZipOf(<<>>) /\ odx_d_file_name \in Files
    /\ db = EmptyDatabase
    /\ constructed = FALSE
    /\ refresh_calls = 0
    /\ db_before = EmptyDatabase
    /\ observed = NoRead
    /\ strict_mode = TRUE

\* one document file of any shape and version
InitVersion ==
    /\ parameters = <<>>
    /\ byte_size = None
    /\ InitCommon
    /\ pdx_zip = NoZip
    /\ odx_d_file_name \in {[given |-> TRUE, doc |-> r] : r \in Roots}
    /\ db = EmptyDatabase
    /\ constructed = FALSE
    /\ refresh_calls = 0
    /\ db_before = EmptyDatabase
    /\ observed = NoRead
    /\ strict_mode = TRUE

NextVersion == Construct \/ RefreshStep

SpecVersion == InitVersion /\ [][NextVersion]_vars

\* a database and a reader of it: constructed from one file, or empty
InitReader ==
    /\ parameters = <<>>
    /\ byte_size = None
    /\ InitCommon
    /\ pdx_zip = NoZip
    /\ odx_d_file_name \in {NoFile} \cup Files
    /\ db = EmptyDatabase
    /\ constructed = FALSE
    /\ refresh_calls = 0
    /\ db_before = EmptyDatabase
    /\ observed = NoRead
    /\ strict_mode = TRUE

NextReader ==
    \/ Construct
    \/ Refresh
    \/ RefreshStep
    \/ SetContainers
    \/ Read

SpecReader == InitReader /\ [][NextReader]_vars

\* containers whose layers name a layer of a container as their parent: the
\* parent reference is a reference to the container's own identifier
ParentItemLists == {<<>>, <<Ref(OwnIds[1])>>, <<Ref(OwnIds[2])>>}

LayerDocs ==
    {MkDoc(<<"DIAG-LAYER-CONTAINER", <<<<2>>, <<2>>>>>>, ContainerNames[n],
           items) : n \in 1..Len(ContainerNames), items \in ParentItemLists}

\* an archive of up to MaxDocs containers with parent references
InitLayers ==
    /\ parameters = <<>>
    /\ byte_size = None
    /\ InitCommon
    /\ pdx_zip \in {ZipOf(docs) :
                       docs \in UNION {[1..n -> LayerDocs] : n \in 1..MaxDocs}}
    /\ odx_d_file_name = NoFile
    /\ db = EmptyDatabase
    /\ constructed = FALSE
    /\ refresh_calls = 0
    /\ db_before = EmptyDatabase
    /\ observed = NoRead
    /\ strict_mode = TRUE

NextLayers == Construct \/ RefreshStep

SpecLayers == InitLayers /\ [][NextLayers]_vars

\* a database constructed from one file with a container or a comparam
\* subset, whose containers are replaced, once or several times, before
\* refresh is called again
InitContainers ==
    /\ parameters = <<>>
    /\ byte_size = None
    /\ InitCommon
    /\ pdx_zip = NoZip
    /\ odx_d_file_name \in {f \in Files : f.doc.kind # "COMPARAM-SPEC"}
    /\ db = EmptyDatabase
    /\ constructed = FALSE
    /\ refresh_calls = 0
    /\ db_before = EmptyDatabase
    /\ observed = NoRead
    /\ strict_mode = TRUE

NextContainers ==
    \/ Construct
    \/ ReplaceContainers
    \/ Refresh
    \/ RefreshStep

SpecContainers == InitContainers /\ [][NextContainers]_vars

NextDatabase ==
    \/ Construct
    \/ Refresh
    \/ RefreshStep
    \/ SetContainers

SpecDatabase == InitDatabase /\ [][NextDatabase]_vars

\* a load and the calls of refresh that follow it
NextReload == Construct \/ Refresh \/ RefreshStep

\* the parameter lists of documents whose references are or are not
\* declared: "y" and "lib" are declared nowhere, "lib" is the library a
\* program code of a single ECU job refers to
ResolutionItemLists ==
    {<<Ref("x")>>, <<Decl("x"), Ref("x")>>, <<Ref("y")>>,
     <<LibraryRef("lib"), Ref("x")>>, <<Decl("x"), LibraryRef("lib")>>}

ResolutionDocs ==
    {MkDoc(h, ContainerNames[n], items) :
        h \in {<<"DIAG-LAYER-CONTAINER", <<<<2>>, <<2>>>>>>,
               <<"COMPARAM-SUBSET", <<<<2>>, <<2>>, <<0>>>>>>},
        n \in 1..Len(ContainerNames), items \in ResolutionItemLists}

\* an archive of up to MaxDocs containers and subsets, loaded in strict or
\* in lenient mode
InitResolution ==
    /\ parameters = <<>>
    /\ byte_size = None
    /\ InitCommon
    /\ pdx_zip \in {ZipOf(docs) :
                       docs \in UNION {[1..n -> ResolutionDocs] :
                                          n \in 1..MaxDocs}}
    /\ odx_d_file_name = NoFile
    /\ db = EmptyDatabase
    /\ constructed = FALSE
    /\ refresh_calls = 0
    /\ db_before = EmptyDatabase
    /\ observed = NoRead
    /\ strict_mode \in BOOLEAN

SpecResolution == InitResolution /\ [][NextReload]_vars

\* the parent references of the container at place i of an archive of n
\* containers: none, one or two, to the identifiers of the other containers
ParentLists(i, n) ==
    LET others == {OwnIds[k] : k \in (1..n) \ {i}}
    IN {<<>>} \cup {<<Ref(p)>> : p \in others}
          \cup {<<Ref(pq[1]), Ref(pq[2])>> :
                   pq \in {c \in others \X others : c[1] # c[2]}}

\* what the layer of a container does with the communication "s": nothing,
\* declare it, refer to it by short name
LayerShapes ==
    {[items |-> <<>>, local |-> {}], [items |-> <<>>, local |-> {"s"}],
     [items |-> <<SnRef("s")>>, local |-> {}]}

\* the container at place i, of short name LayerNames[i]: its layer has the
\* parents, then one of the shapes
InheritDocs(i, n) ==
    {[MkDoc(<<"DIAG-LAYER-CONTAINER", <<<<2>>, <<2>>>>>>, LayerNames[i],
            parents \o shape.items) EXCEPT !.local = shape.local] :
        parents \in ParentLists(i, n), shape \in LayerShapes}

\* the archives of n containers, from place i on
RECURSIVE ArchivesFrom(_, _)
ArchivesFrom(i, n) ==
    IF i > n THEN {<<>>}
    ELSE {<<d>> \o rest : d \in InheritDocs(i, n),
                          rest \in ArchivesFrom(i + 1, n)}

\* archives of up to MaxLayers containers
InheritArchives == UNION {ArchivesFrom(1, n) : n \in 1..MaxLayers}

InitInheritance ==
    /\ parameters = <<>>
    /\ byte_size = None
    /\ InitCommon
    /\ pdx_zip \in {ZipOf(docs) : docs \in InheritArchives}
    /\ odx_d_file_name = NoFile
    /\ db = EmptyDatabase
    /\ constructed = FALSE
    /\ refresh_calls = 0
    /\ db_before = EmptyDatabase
    /\ observed = NoRead
    /\ strict_mode \in BOOLEAN

SpecInheritance == InitInheritance /\ [][NextReload]_vars

(***************************************************************************)
(* C1: get_static_bit_length of a structure with an explicit byte size N   *)
(* returns 8*N for every N, N = 0 included, whatever the parameters are.   *)
(* The code tests "if self.byte_size:", so a size of 0 is taken as no      *)
(* size and the parameters decide.                                         *)
(***************************************************************************)
C1_ExplicitSizeWins ==
    (pc = "static_done" /\ byte_size # None) => static_result = 8 * byte_size

(***************************************************************************)
(* C2: an encode call that returns for a structure with explicit byte size *)
(* N returns exactly N bytes; a buffer of any other length after both      *)
(* passes makes the call fail and return nothing.                          *)
(***************************************************************************)
Validated == trace # <<>> /\ trace[Len(trace)].phase = "validate"

C2_ExplicitSizeEnforced ==
    /\ (pc = "done" /\ byte_size # None) => Len(result) = byte_size
    /\ (Validated /\ byte_size # None
           /\ Len(encode_state.coded_message) # byte_size)
          => (pc = "error" /\ error = "OdxError" /\ result = <<>>)

C2_Witness ==
    /\ Validated
    /\ byte_size # None
    /\ Len(encode_state.coded_message) > byte_size
    /\ pc = "error"

(***************************************************************************)
(* C3: a buffer shorter than the explicit byte size N after the first pass *)
(* is extended on the right with zero bytes to exactly N bytes, the bytes  *)
(* of the first pass staying its prefix; a buffer of N or more bytes is    *)
(* left as it is.                                                          *)
(***************************************************************************)
PadStep ==
    LET before == encode_state.coded_message
        after == encode_state'.coded_message
    IN pc = "pad" =>
         IF byte_size # None /\ Len(before) < byte_size
         THEN /\ Len(after) = byte_size
              /\ SubSeq(after, 1, Len(before)) = before
              /\ \A i \in Len(before) + 1 .. byte_size : after[i] = 0
         ELSE after = before

C3_PaddingOnTheRight == [][PadStep]_vars

C3_Witness ==
    /\ pc \in {"pass2", "validate"}
    /\ trace[Len(trace)].phase = "pad"
    /\ Len(parameters) = 1
    /\ parameters[1].kind = "CODED-CONST"
    /\ byte_size = MaxByteSize
    /\ encode_state.coded_message = <<CodedValue>> \o Zeros(MaxByteSize - 1)

(***************************************************************************)
(* C4: one encode call visits every parameter in the first pass in         *)
(* declaration order, then pads, then encodes exactly the length-key and   *)
(* table-key parameters in declaration order, then validates; the steps    *)
(* taken are at every moment a prefix of that order.                       *)
(***************************************************************************)
RECURSIVE KeySteps(_, _)
KeySteps(params, i) ==
    IF i > Len(params) THEN <<>>
    ELSE (IF IsKey(params[i]) THEN <<Step("pass2", i)>> ELSE <<>>)
         \o KeySteps(params, i + 1)

ExpectedSteps(params) ==
    [i \in 1..Len(params) |-> Step("pass1", i)]
    \o <<Step("pad", 0)>>
    \o KeySteps(params, 1)
    \o <<Step("validate", 0)>>

IsPrefix(s, t) == Len(s) <= Len(t) /\ SubSeq(t, 1, Len(s)) = s

C4_EncodeStepOrder ==
    /\ IsPrefix(trace, ExpectedSteps(parameters))
    /\ pc = "done" => trace = ExpectedSteps(parameters)

C4_Witness ==
    /\ pc = "done"
    /\ Len(parameters) = 2
    /\ parameters[1].kind = "LENGTH-KEY"
    /\ parameters[2].kind = "VALUE"
    /\ byte_size = MaxByteSize
    /\ Len(trace) = 5

(***************************************************************************)
(* C5: round trip.  As claimed: for a structure without length-key and     *)
(* table-key parameters (the model has no variable-length ones) and a      *)
(* mapping v that encode accepts, decode(encode(structure, v)) equals v.   *)
(***************************************************************************)
NoDerivedParams == \A i \in 1..Len(parameters) : ~IsKey(parameters[i])

NamesOf(params) == {params[i].short_name : i \in 1..Len(params)}

RECURSIVE StartOf(_, _)
StartOf(params, i) ==
    IF params[i].byte_position # None THEN params[i].byte_position
    ELSE IF i = 1 THEN 0
    ELSE LET ends == {StartOf(params, j) + ByteLength(params[j]) : j \in 1..i-1}
         IN CHOOSE e \in ends : \A f \in ends : f <= e

NoOverlap(params) ==
    \A i, j \in 1..Len(params) :
        i # j => \/ StartOf(params, i) + ByteLength(params[i]) <= StartOf(params, j)
                 \/ StartOf(params, j) + ByteLength(params[j]) <= StartOf(params, i)

C5_WitnessEqual ==
    /\ pc = "rt_decoded"
    /\ NoOverlap(parameters)
    /\ Len(parameters) = 2
    /\ parameters[1].kind = "CODED-CONST"
    /\ parameters[2].kind = "VALUE"
    /\ parameters[2].bit_length = 16
    /\ arg_values[parameters[2].short_name] = 258
    /\ dec_result.values = arg_values

(***************************************************************************)
(* C6: as claimed, the mapping decode returns has keys only for the free   *)
(* (value) parameters, never for a constant or a length key.               *)
(***************************************************************************)
FreeNames(params) ==
    {params[i].short_name : i \in {j \in 1..Len(params) : params[j].kind = "VALUE"}}

DecodeReturned == pc = "done" /\ dec_entry = "decode"

C6_OnlyFreeParamsAsClaimed ==
    DecodeReturned => DOMAIN dec_result.values \subseteq FreeNames(parameters)

(***************************************************************************)
(* C6, amended: the mapping decode returns has a key for every parameter   *)
(* of the structure, constants and length keys included, each with the     *)
(* value its decode reported; only a structure without parameters decodes  *)
(* to the empty mapping.                                                   *)
(***************************************************************************)
C6_EveryParamIsReturned ==
    DecodeReturned =>
        /\ DOMAIN dec_result.values = NamesOf(parameters)
        /\ \A i \in 1..Len(parameters) :
              dec_result.values[parameters[i].short_name] = reported[i].value

C6_Witness ==
    /\ DecodeReturned
    /\ Len(parameters) = 2
    /\ parameters[1].kind = "CODED-CONST"
    /\ parameters[2].kind = "LENGTH-KEY"
    /\ Cardinality(DOMAIN dec_result.values) = 2

(***************************************************************************)
(* C7: a structure invoked at a nonzero bit position fails before any      *)
(* parameter is processed, with DecodeError when decoding and EncodeError  *)
(* when encoding; at bit position 0 a call that fails has failed later,    *)
(* in a parameter or in the validation.                                    *)
(***************************************************************************)
Decoding == dec_entry # "none"
Encoding == dec_entry = "none" /\ pc # "idle"

C7_MisalignedFailsFirst ==
    /\ (Decoding /\ arg_bit_position # 0) =>
          (pc = "error" /\ error = "DecodeError" /\ seen = <<>>
             /\ reported = <<>>)
    /\ (Encoding /\ arg_bit_position # 0) =>
          (pc = "error" /\ error = "EncodeError" /\ trace = <<>>)
    /\ (Decoding /\ arg_bit_position = 0 /\ pc = "error") => seen # <<>>
    /\ (Encoding /\ arg_bit_position = 0 /\ arg_is_dict /\ pc = "error") =>
          trace # <<>>

C7_Witness ==
    /\ Decoding
    /\ arg_bit_position # 0
    /\ Len(parameters) = MaxParams
    /\ pc = "error"

(***************************************************************************)
(* C8: the inner cursor of a decode starts at 0, never moves backwards,    *)
(* and after each parameter is the maximum of 0 and the positions reported *)
(* so far.                                                                 *)
(***************************************************************************)
RECURSIVE RunningMax(_, _)
RunningMax(r, k) ==
    IF k = 0 THEN 0
    ELSE LET before == RunningMax(r, k - 1)
         IN IF r[k].cursor_position > before THEN r[k].cursor_position
            ELSE before

CursorStep ==
    /\ inner'.cursor_position >= inner.cursor_position
    /\ inner'.cursor_position = RunningMax(reported', Len(reported'))

C8_CursorIsRunningMax == [][CursorStep]_vars

C8_Witness ==
    /\ pc = "done"
    /\ \E k \in 1..Len(reported) :
          reported[k].cursor_position < RunningMax(reported, k - 1)

(***************************************************************************)
(* C9: the decode state handed to the k-th parameter holds exactly the     *)
(* values decoded for parameters 1..k-1 of the structure, under their      *)
(* short names.                                                            *)
(***************************************************************************)
C9_EarlierValuesVisible ==
    \A k \in 1..Len(seen) :
        /\ DOMAIN seen[k] = {parameters[i].short_name : i \in 1..k-1}
        /\ \A i \in 1..k-1 :
              seen[k][parameters[i].short_name] = reported[i].value

C9_Witness ==
    /\ dec_entry = "convert_bytes_to_physical"
    /\ decode_state.parameter_values # EmptyMap
    /\ Len(seen) = MaxParams
    /\ pc = "done"

(***************************************************************************)
(* C10: a message longer than what decode consumed gives a size-mismatch   *)
(* warning and no failure, and the mapping returned is the one decode      *)
(* returns for the message cut to the consumed length.                     *)
(***************************************************************************)
DecodeFinished ==
    /\ dec_entry = "decode"
    /\ pc \in {"done", "error"}
    /\ Len(reported) = Len(parameters)

Consumed == decode_state.cursor_position + inner.cursor_position

C10_TrailingBytesOnlyWarn ==
    (DecodeFinished /\ Len(decode_state.coded_message) > Consumed) =>
        LET cut == decode(parameters,
                          SubSeq(decode_state.coded_message, 1, Consumed))
        IN /\ pc = "done"
           /\ error = "none"
           /\ warnings # <<>>
           /\ warnings[Len(warnings)] = "size mismatch"
           /\ cut.error = "none"
           /\ dec_result.values = cut.values

C10_Witness ==
    /\ DecodeFinished
    /\ pc = "done"
    /\ Len(parameters) >= 1
    /\ Len(decode_state.coded_message) > Consumed


(***************************************************************************)
(* C11: without an explicit byte size, get_static_bit_length returns None  *)
(* (and raises nothing) if some parameter has no static bit length;        *)
(* otherwise it returns the largest end position of any parameter, rounded *)
(* up to a multiple of 8, where a parameter with an explicit byte position *)
(* starts at 8*byte_position + bit_position and any other parameter starts *)
(* where the one before it ended.  A second call returns the same value.   *)
(***************************************************************************)
RECURSIVE EndOf(_, _)
EndOf(params, i) ==
    IF i = 0 THEN 0
    ELSE LET p == params[i]
             start == IF p.byte_position # None
                      THEN 8 * p.byte_position
                           + (IF p.bit_position = None THEN 0
                              ELSE p.bit_position)
                      ELSE EndOf(params, i - 1)
         IN start + p.bit_length

LargestEnd(params) ==
    LET ends == {0} \cup {EndOf(params, i) : i \in 1..Len(params)}
    IN CHOOSE e \in ends : \A f \in ends : f <= e

RoundUpToByte(n) == CHOOSE m \in n..(n + 7) : m % 8 = 0

HasIndeterminate(params) ==
    \E i \in 1..Len(params) : params[i].bit_length = None

StaticReturned == pc \in {"static_done", "static_again"}

C11_InferredLength ==
    (StaticReturned /\ byte_size = None)
       => /\ error = "none"
          /\ HasIndeterminate(parameters) => static_result = None
          /\ ~HasIndeterminate(parameters)
                => static_result = RoundUpToByte(LargestEnd(parameters))

C11_SecondCallAgrees == pc = "static_done" => static_result' = static_result

C11_StaticLength == []C11_InferredLength /\ [][C11_SecondCallAgrees]_vars

\* the second parameter jumps back into the first byte and ends in the second
C11_Witness ==
    /\ pc = "static_again"
    /\ byte_size = None
    /\ Len(parameters) = 2
    /\ parameters[1].byte_position = None
    /\ parameters[1].bit_length = 8
    /\ parameters[2].byte_position = 0
    /\ parameters[2].bit_position = 4
    /\ parameters[2].bit_length = 8
    /\ static_result = 16


(***************************************************************************)
(* C12: without an explicit byte size, an encoded length that differs from *)
(* the statically inferred length only produces a warning: the call still  *)
(* returns, and returns the buffer as the two passes left it; when the     *)
(* static length is indeterminate nothing is compared and nothing warned.  *)
(***************************************************************************)
InferredLength(params) ==
    IF HasIndeterminate(params) THEN None
    ELSE RoundUpToByte(LargestEnd(params))

C12_InferredMismatchOnlyWarns ==
    (Validated /\ byte_size = None)
       => /\ pc = "done"
          /\ error = "none"
          /\ result = encode_state.coded_message
          /\ InferredLength(parameters) = None => warnings = <<>>
          /\ (warnings # <<>>)
                <=> /\ InferredLength(parameters) # None
                    /\ 8 * Len(result) # InferredLength(parameters)

\* a length key without byte position is appended by both passes
C12_Witness ==
    /\ Validated
    /\ byte_size = None
    /\ InferredLength(parameters) = 8
    /\ Len(result) = 2
    /\ warnings # <<>>
    /\ pc = "done"

\* a structure of indeterminate length that encodes without a warning
C12_WitnessIndeterminate ==
    /\ Validated
    /\ byte_size = None
    /\ parameters # <<>>
    /\ InferredLength(parameters) = None
    /\ pc = "done"


(***************************************************************************)
(* C13: an encode call handed something that is not a name->value mapping  *)
(* fails with EncodeError before any parameter's encode is invoked and     *)
(* before any EncodeState is constructed.                                  *)
(***************************************************************************)
C13_NonMappingRejectedFirst ==
    /\ ~arg_is_dict
          => /\ pc = "error"
             /\ error = "EncodeError"
             /\ trace = <<>>
             /\ states_created = 0
             /\ encode_state = NoEncodeState
             /\ result = <<>>
    /\ (Encoding /\ trace # <<>>) => (arg_is_dict /\ states_created = 1)

C13_Witness ==
    /\ ~arg_is_dict
    /\ arg_bit_position = 0
    /\ parameters # <<>>
    /\ pc = "error"
    /\ error = "EncodeError"


(***************************************************************************)
(* C14: coded_const_prefix encodes exactly the longest leading run of      *)
(* coded-const, NRC-const, matching-request and physical-constant          *)
(* parameters, in order: it stops at the first parameter of another kind,  *)
(* encodes nothing after it, and returns the empty byte string when the    *)
(* run is empty.                                                           *)
(***************************************************************************)
ConstantKinds == {"CODED-CONST", "NRC-CONST", "MATCHING-REQUEST", "PHYS-CONST"}

\* the length of the longest leading run of constant parameters
RunLength(params) ==
    CHOOSE k \in 0..Len(params) :
       /\ \A i \in 1..k : params[i].kind \in ConstantKinds
       /\ k < Len(params) => params[k + 1].kind \notin ConstantKinds

\* the buffer after encoding the first k parameters into an empty one
RECURSIVE EncodingOfFirst(_, _, _)
EncodingOfFirst(params, k, es) ==
    IF k = 0 THEN <<>>
    ELSE encode_into_pdu(params[k],
            [es EXCEPT !.coded_message = EncodingOfFirst(params, k - 1, es)]
         ).coded_message

PrefixSteps(k) == [i \in 1..k |-> Step("prefix", i)]

C14_PrefixIsLeadingRun ==
    /\ pc = "prefix_done"
          => /\ trace = PrefixSteps(RunLength(parameters))
             /\ result = EncodingOfFirst(parameters, RunLength(parameters),
                                         encode_state)
             /\ RunLength(parameters) = 0 => result = <<>>
    /\ pc \in {"prefix", "error"}
          => /\ Len(trace) <= RunLength(parameters)
             /\ trace = PrefixSteps(Len(trace))
             /\ result = <<>>

\* one constant is encoded and the value parameter after it stops the loop
C14_Witness ==
    /\ pc = "prefix_done"
    /\ Len(parameters) = 2
    /\ parameters[1].kind = "MATCHING-REQUEST"
    /\ parameters[2].kind = "VALUE"
    /\ trace = <<Step("prefix", 1)>>
    /\ result = <<2>>

\* a constant after a value parameter is not encoded
C14_WitnessStopsAtFirst ==
    /\ pc = "prefix_done"
    /\ Len(parameters) = 2
    /\ parameters[1].kind = "VALUE"
    /\ parameters[2].kind = "CODED-CONST"
    /\ trace = <<>>
    /\ result = <<>>

\* a run of two constants, the second mirrored from the request
C14_WitnessRun ==
    /\ pc = "prefix_done"
    /\ Len(parameters) = 2
    /\ parameters[1].kind = "NRC-CONST"
    /\ parameters[2].kind = "MATCHING-REQUEST"
    /\ Len(result) = 2
    /\ result[2] = 2

(***************************************************************************)
(* C15: in every run of refresh the phases are strictly ordered over all   *)
(* documents: nothing is resolved by id before every comparam subset and   *)
(* every container has contributed to the link database, and no container  *)
(* is finalized before resolve-by-id has run on every comparam subset and  *)
(* every container.                                                        *)
(***************************************************************************)
LinkedObjects ==
    {db.comparam_subsets[i] : i \in 1..Len(db.comparam_subsets)}
       \cup {db.diag_layer_containers[i] :
                i \in 1..Len(db.diag_layer_containers)}

DoneBefore(phase, k, obj) ==
    \E j \in 1..(k - 1) : trace[j].phase = phase /\ trace[j].oid = obj.oid

C15_PhasesStrictlyOrdered ==
    \A k \in 1..Len(trace) :
       /\ trace[k].phase = "resolve"
             => \A obj \in LinkedObjects : DoneBefore("build", k, obj)
       /\ trace[k].phase = "finalize"
             => \A obj \in LinkedObjects : DoneBefore("resolve", k, obj)

\* one subset and one container: build, build, resolve, resolve, finalize
C15_Witness ==
    /\ pc = "ready"
    /\ Len(db.comparam_subsets) = 1
    /\ Len(db.diag_layer_containers) = 1
    /\ Len(trace) = 5
    /\ trace[3].phase = "resolve"
    /\ trace[5].phase = "finalize"

(***************************************************************************)
(* C16: after the build phase the link database contains the identifiers   *)
(* declared by every loaded document, whatever its kind (containers,       *)
(* comparam subsets, comparam specs), and after the resolve-by-id phase    *)
(* the references of each of them are resolved.  refresh loops over the    *)
(* comparam subsets and the containers only: a comparam spec contributes   *)
(* nothing and is never resolved.                                          *)
(***************************************************************************)
LoadedObjects ==
    LinkedObjects
       \cup {db.comparam_specs[i] : i \in 1..Len(db.comparam_specs)}

DeclaredIds(obj) ==
    {OwnIds[obj.oid]}
       \cup {obj.items[j].id :
                j \in {i \in 1..Len(obj.items) : obj.items[i].tag = "DECL"}}

BuildPhaseOver ==
    \/ pc = "ready"
    \/ /\ pc \in {"refreshing", "failed"}
       /\ trace # <<>>
       /\ trace[Len(trace)].phase \in {"resolve", "finalize"}

Contributed(objs) ==
    \A obj \in objs : DeclaredIds(obj) \subseteq DOMAIN db.odxlinks

AllResolved(objs) ==
    \A obj \in objs : \A j \in 1..Len(obj.items) :
       obj.items[j].tag = "REF" => obj.bound[j] # NoEntity

C16_EveryDocumentContributes ==
    /\ BuildPhaseOver => Contributed(LoadedObjects)
    /\ pc = "ready" => AllResolved(LoadedObjects)

\* what does hold: the subsets and the containers contribute and are resolved
C16_SubsetsAndContainersContribute ==
    /\ BuildPhaseOver => Contributed(LinkedObjects)
    /\ pc = "ready" => AllResolved(LinkedObjects)

(***************************************************************************)
(* C17: after build, resolve-by-id and finalize have run on a layer, every *)
(* reference held by an object of that layer whose identifier is in the    *)
(* link database is bound to exactly the entity registered under that      *)
(* identifier; a reference whose identifier is absent makes resolution     *)
(* fail explicitly instead of being bound to some other or default entity. *)
(* As stated this does not hold: in lenient mode an absent identifier is a *)
(* recorded warning and the load goes on, and the library reference of a   *)
(* program code is not looked up at all, registered or not.                *)
(***************************************************************************)
RefsOf(obj) == {j \in 1..Len(obj.items) : obj.items[j].tag = "REF"}

LibraryRefsOf(obj) ==
    {j \in 1..Len(obj.items) : obj.items[j].tag = "LIBRARY-REF"}

AbsentRefs(obj) ==
    {j \in RefsOf(obj) : obj.items[j].id \notin DOMAIN db.odxlinks}

AbsentLibraryRefs(obj) ==
    {j \in LibraryRefsOf(obj) : obj.items[j].id \notin DOMAIN db.odxlinks}

ObjectOf(step) == CHOOSE obj \in LinkedObjects : obj.oid = step.oid

C17_AbsentAlwaysFailsAsClaimed ==
    /\ pc = "ready"
          => \A obj \in LinkedObjects :
                /\ AbsentRefs(obj) \cup AbsentLibraryRefs(obj) = {}
                /\ \A j \in RefsOf(obj) :
                      obj.bound[j] = db.odxlinks[obj.items[j].id]
    /\ \A k \in 1..Len(trace) :
          (/\ trace[k].phase = "resolve"
           /\ AbsentRefs(ObjectOf(trace[k]))
                 \cup AbsentLibraryRefs(ObjectOf(trace[k])) # {})
             => /\ pc = "failed"
                /\ error = "KeyError"
                /\ k = Len(trace)

(***************************************************************************)
(* C17, amended: a reference that is looked up by identifier is bound to   *)
(* exactly the entity the link database registers under its identifier,    *)
(* and a reference whose identifier is absent is never bound to another or *)
(* a default entity.  In strict mode the absent identifier ends the        *)
(* refresh with an error at the resolve step of the object that holds the  *)
(* reference; in lenient mode it is a recorded warning, the reference      *)
(* stays unresolved and the refresh goes on.  A library reference is not   *)
(* looked up: it stays unresolved and fails nothing.                       *)
(***************************************************************************)
\* the references of the linked objects whose identifier is absent
AllAbsentRefs ==
    {<<obj.oid, j>> : obj \in LinkedObjects, j \in 1..MaxParams}
       \cap UNION {{<<obj.oid, j>> : j \in AbsentRefs(obj)} :
                      obj \in LinkedObjects}

C17_ReferencesBoundByIdentifier ==
    /\ pc = "ready"
          => /\ \A obj \in LinkedObjects : \A j \in RefsOf(obj) :
                   IF obj.items[j].id \in DOMAIN db.odxlinks
                   THEN obj.bound[j] = db.odxlinks[obj.items[j].id]
                   ELSE obj.bound[j] = NoEntity /\ ~strict_mode
             /\ Len(warnings) = refresh_calls * Cardinality(AllAbsentRefs)
    /\ \A k \in 1..Len(trace) :
          (trace[k].phase = "resolve" /\ AbsentRefs(ObjectOf(trace[k])) # {})
             => IF strict_mode
                THEN pc = "failed" /\ error = "KeyError" /\ k = Len(trace)
                ELSE pc # "failed" /\ warnings # <<>>
    /\ pc = "failed"
          => /\ strict_mode
             /\ trace[Len(trace)].phase = "resolve"
             /\ AbsentRefs(ObjectOf(trace[Len(trace)])) # {}
    /\ BuildPhaseOver
          => \A obj \in LinkedObjects :
                \A j \in AbsentRefs(obj) : obj.bound[j] = NoEntity
    /\ \A obj \in LinkedObjects :
          \A j \in LibraryRefsOf(obj) : obj.bound[j] = NoEntity

\* two finalized containers declare "x": both references are bound to the
\* entity of the container that registered last
C17_Witness ==
    /\ pc = "ready"
    /\ Len(db.diag_layer_containers) = 2
    /\ \A i \in 1..2 :
          /\ db.diag_layer_containers[i].finalized
          /\ db.diag_layer_containers[i].items = <<Decl("x"), Ref("x")>>
          /\ db.diag_layer_containers[i].bound[2]
                = Entity(db.diag_layer_containers[2].oid, 1)

\* strict mode: a reference to an identifier nobody declares ends refresh
\* with KeyError
C17_WitnessAbsent ==
    /\ strict_mode
    /\ pc = "failed"
    /\ error = "KeyError"
    /\ \E obj \in LinkedObjects : AbsentRefs(obj) # {}

\* lenient mode: the load ends with the reference unresolved and a warning
C17_WitnessLenient ==
    /\ ~strict_mode
    /\ pc = "ready"
    /\ warnings = <<"unresolved reference">>
    /\ \E obj \in LinkedObjects :
          /\ obj.items = <<Ref("y")>>
          /\ obj.bound[1] = NoEntity
          /\ obj.kind = "DIAG-LAYER-CONTAINER" => obj.finalized

\* strict mode: a layer with a library reference nobody registered is
\* resolved and finalized, its other reference bound
C17_WitnessLibrary ==
    /\ strict_mode
    /\ pc = "ready"
    /\ \E i \in 1..Len(db.diag_layer_containers) :
          LET obj == db.diag_layer_containers[i]
          IN /\ obj.items = <<LibraryRef("lib"), Ref("x")>>
             /\ "lib" \notin DOMAIN db.odxlinks
             /\ obj.bound[1] = NoEntity
             /\ obj.bound[2] = db.odxlinks["x"]
             /\ obj.finalized

(***************************************************************************)
(* C18: re-running the resolution protocol is idempotent: calling refresh  *)
(* a second time on an unchanged set of containers leaves every reference  *)
(* bound to the same entity as after the first run and yields a link       *)
(* database with the same identifier-to-entity mapping.  refresh finalizes *)
(* the containers in the order of their short names and keeps the layers   *)
(* of the run before, so a layer whose parent is finalized after it sees   *)
(* nothing of the parent in the first run and the parent's finalized view  *)
(* in the second: a short-name reference of the layer is bound to another  *)
(* entity then.                                                            *)
(***************************************************************************)
RunAgain == db_before.refreshed

BoundOf(objs) == [i \in 1..Len(objs) |-> objs[i].bound]

C18_RefreshIsIdempotent ==
    RunAgain
       => /\ pc # "failed"
          /\ pc = "ready"
                => /\ BoundOf(db.diag_layer_containers)
                         = BoundOf(db_before.diag_layer_containers)
                   /\ BoundOf(db.comparam_subsets)
                         = BoundOf(db_before.comparam_subsets)
                   /\ db.odxlinks = db_before.odxlinks

\* the bindings of the references that are looked up by identifier
IdBoundOf(objs) ==
    [i \in 1..Len(objs) |->
        [j \in RefsOf(objs[i]) |-> objs[i].bound[j]]]

\* what does hold: the second run does not fail, the references looked up
\* by identifier are bound as before and the link database is the same
C18_IdReferencesStable ==
    RunAgain
       => /\ pc # "failed"
          /\ pc = "ready"
                => /\ IdBoundOf(db.diag_layer_containers)
                         = IdBoundOf(db_before.diag_layer_containers)
                   /\ IdBoundOf(db.comparam_subsets)
                         = IdBoundOf(db_before.comparam_subsets)
                   /\ db.odxlinks = db_before.odxlinks

\* a second run over a layer and its parent that is finalized before it:
\* the short-name reference is bound to the parent's entity both times
C18_Witness ==
    /\ RunAgain
    /\ pc = "ready"
    /\ refresh_calls = 2
    /\ Len(db.diag_layer_containers) = 2
    /\ db.diag_layer_containers[1].local = {"s"}
    /\ db.diag_layer_containers[2].items
          = <<Ref(OwnIds[db.diag_layer_containers[1].oid]), SnRef("s")>>
    /\ db.diag_layer_containers[2].bound[2]
          = LocalEntity(db.diag_layer_containers[1].oid, "s")
    /\ db_before.diag_layer_containers[2].bound
          = db.diag_layer_containers[2].bound

(***************************************************************************)
(* C19: when a step of a load or of a later refresh fails, the Database    *)
(* object exposes no partially rebuilt state: its objects are never a mix  *)
(* of resolved or finalized ones and ones that are not.  A failing         *)
(* constructor returns no object, but refresh called on an object works    *)
(* in place and leaves what it has done so far when it raises.             *)
(***************************************************************************)
Resolved(obj) == \A j \in RefsOf(obj) : obj.bound[j] # NoEntity

Mixed ==
    \/ \E o1, o2 \in LinkedObjects : Resolved(o1) /\ ~Resolved(o2)
    \/ \E i, j \in 1..Len(db.diag_layer_containers) :
          /\ db.diag_layer_containers[i].finalized
          /\ ~db.diag_layer_containers[j].finalized

C19_NoPartialStateExposed == (pc = "failed" /\ constructed) => ~Mixed

\* what does hold: a load that fails returns no object
C19_FailedLoadReturnsNothing ==
    (pc \in {"failed", "error"} /\ (pdx_zip.given \/ odx_d_file_name.given))
       => ~constructed

(***************************************************************************)
(* C20: the order in which the archive lists its documents does not affect *)
(* the result: whatever the listing, the containers, comparam subsets and  *)
(* comparam specs are the same objects in the same order (by short name,   *)
(* then by file name), and the link database ends with the same            *)
(* identifier-to-entity mapping.                                           *)
(***************************************************************************)
LoadedFromArchive ==
    /\ pdx_zip.given
    /\ ~odx_d_file_name.given
    /\ pc \in {"refreshing", "ready", "failed"}

OidsOf(objs) == [i \in 1..Len(objs) |-> objs[i].oid]

\* the file names of the wanted documents, by short name and then file name
ExpectedOids(wanted) ==
    LET docs == {m \in pdx_zip.members : m.suffix # XmlSuffix /\ m.doc \in wanted}
        names == {m.name : m \in docs}
        NameRank(name) ==
            LET m == CHOOSE d \in docs : d.name = name
            IN CHOOSE r \in 1..Len(ContainerNames) :
                  ContainerNames[r] = m.doc.short_name
        Less(a, b) ==
            NameRank(a) < NameRank(b) \/ (NameRank(a) = NameRank(b) /\ a < b)
    IN CHOOSE q \in [1..Cardinality(names) -> names] :
          \A i, j \in 1..Cardinality(names) : i < j => Less(q[i], q[j])

\* the entity registered last under id by the objects in order
LastRegistered(order, id) ==
    LET last == CHOOSE i \in 1..Len(order) :
                   /\ id \in DeclaredIds(order[i])
                   /\ \A k \in (i + 1)..Len(order) :
                         id \notin DeclaredIds(order[k])
        obj == order[last]
        decls == {j \in 1..Len(obj.items) :
                     obj.items[j] = Decl(id)}
    IN IF decls = {} THEN Entity(obj.oid, 0)
       ELSE Entity(obj.oid, CHOOSE j \in decls : \A k \in decls : k <= j)

ExpectedLinks ==
    LET order == db.comparam_subsets \o db.diag_layer_containers
        ids == UNION {DeclaredIds(order[i]) : i \in 1..Len(order)}
    IN [id \in ids |-> LastRegistered(order, id)]

C20_ListingOrderIrrelevant ==
    LoadedFromArchive
       => /\ OidsOf(db.diag_layer_containers)
                = ExpectedOids({d \in Docs : HasContainer(d)})
          /\ OidsOf(db.comparam_subsets)
                = ExpectedOids({d \in Docs : HasSubset(d)})
          /\ OidsOf(db.comparam_specs) = ExpectedOids({d \in Docs : HasSpec(d)})
          /\ pc = "ready" => db.odxlinks = ExpectedLinks

\* two containers of the same short name, both declaring "x": the file
\* names decide their order and whose "x" is registered
C20_Witness ==
    /\ LoadedFromArchive
    /\ pc = "ready"
    /\ Len(db.diag_layer_containers) = 2
    /\ db.diag_layer_containers[1].short_name
          = db.diag_layer_containers[2].short_name
    /\ OidsOf(db.diag_layer_containers) = <<1, 2>>
    /\ db.odxlinks["x"] = Entity(2, 1)

(***************************************************************************)
(* C21: a document yields at most one of COMPARAM-SUBSET and COMPARAM-SPEC, *)
(* chosen only by its model version compared field by field as integers    *)
(* with 2.2: at or above 2.2 only the COMPARAM-SUBSET is read, below 2.2    *)
(* (a missing version counting as 2.0) only the COMPARAM-SPEC; the          *)
(* DIAG-LAYER-CONTAINER is read whatever the version.                       *)
(***************************************************************************)
\* "2.2", "2.2.0", "2.10", "3.0"
VersionsFrom22 ==
    {<<<<2>>, <<2>>>>, <<<<2>>, <<2>>, <<0>>>>, <<<<2>>, <<1, 0>>>>,
     <<<<3>>, <<0>>>>}

TheRoot == odx_d_file_name.doc

DocumentRead == odx_d_file_name.given /\ ~pdx_zip.given /\ pc # "idle"

Count(present) == IF present THEN 1 ELSE 0

C21_VersionChoosesComparamShape ==
    DocumentRead
       => /\ Len(db.diag_layer_containers)
                = Count("DIAG-LAYER-CONTAINER" \in TheRoot.elements)
          /\ Len(db.comparam_subsets)
                = Count(/\ "COMPARAM-SUBSET" \in TheRoot.elements
                        /\ TheRoot.model_version \in VersionsFrom22)
          /\ Len(db.comparam_specs)
                = Count(/\ "COMPARAM-SPEC" \in TheRoot.elements
                        /\ TheRoot.model_version \notin VersionsFrom22)
          /\ Len(db.comparam_subsets) + Len(db.comparam_specs) <= 1

\* a 2.10 document holding all three elements: the subset is read, the spec
\* is not
C21_Witness ==
    /\ DocumentRead
    /\ TheRoot.elements = ElementTags
    /\ TheRoot.model_version = <<<<2>>, <<1, 0>>>>
    /\ Len(db.diag_layer_containers) = 1
    /\ Len(db.comparam_subsets) = 1
    /\ db.comparam_specs = <<>>

\* a document without version holding all three elements
C21_WitnessMissingVersion ==
    /\ DocumentRead
    /\ TheRoot.elements = ElementTags
    /\ TheRoot.model_version = <<>>
    /\ Len(db.diag_layer_containers) = 1
    /\ Len(db.comparam_specs) = 1
    /\ db.comparam_subsets = <<>>

(***************************************************************************)
(* C22: a reader that takes db.odxlinks while refresh is running sees the  *)
(* complete link database of the run before or the complete new one,       *)
(* never an empty or partly built one.  refresh assigns an empty link      *)
(* database to the object first and fills it in place.                     *)
(***************************************************************************)
C22_ReadersSeeCompleteLinks ==
    (observed.read /\ observed.during_refresh)
       => \/ observed.odxlinks = ExpectedLinks
          \/ db_before.refreshed /\ observed.odxlinks = db_before.odxlinks

(***************************************************************************)
(* C23: during finalize a parent layer is fully finalized before any layer *)
(* that references it as parent is processed, also when parent and child   *)
(* are declared in different containers and the child's container sorts    *)
(* before the parent's by short name.                                      *)
(***************************************************************************)
\* the containers whose layers the layers of obj reference as parent
ParentOids(obj) ==
    {obj.bound[j].oid : j \in {i \in RefsOf(obj) : obj.bound[i].item = 0}}
       \ {obj.oid}

Containers ==
    {db.diag_layer_containers[i] : i \in 1..Len(db.diag_layer_containers)}

C23_ParentFinalizedBeforeChild ==
    \A k \in 1..Len(trace) :
       trace[k].phase = "finalize"
          => \A child \in {c \in Containers : c.oid = trace[k].oid} :
                \A parent \in {c \in Containers : c.oid \in ParentOids(child)} :
                   DoneBefore("finalize", k, parent)

(***************************************************************************)
(* C24: required_parameters and free_parameters are order-preserving       *)
(* sub-lists of the structure's parameter list, selected by is_required,   *)
(* respectively is_settable, and every parameter in required_parameters is *)
(* also in free_parameters.                                                *)
(***************************************************************************)
Elements(s) == {s[i] : i \in 1..Len(s)}

\* the places of the full list at which the elements of sub stand, in order
IsSubList(sub, full) ==
    \E f \in [1..Len(sub) -> 1..Len(full)] :
       /\ \A i \in 1..Len(sub) : full[f[i]] = sub[i]
       /\ \A i, j \in 1..Len(sub) : i < j => f[i] < f[j]

C24_RequiredAndFreeAreSubLists ==
    /\ listed.required_read
          => /\ IsSubList(listed.required, parameters)
             /\ Elements(listed.required)
                   = {p \in Elements(parameters) : is_required(p)}
    /\ listed.free_read
          => /\ IsSubList(listed.free, parameters)
             /\ Elements(listed.free)
                   = {p \in Elements(parameters) : is_settable(p)}
    /\ (listed.required_read /\ listed.free_read)
          => Elements(listed.required) \subseteq Elements(listed.free)

\* a length key before a value parameter: both free, the second one required
C24_Witness ==
    /\ listed.required_read
    /\ listed.free_read
    /\ Len(listed.free) = 2
    /\ listed.required = <<listed.free[2]>>
    /\ listed.free = parameters

\* a constant before a value parameter is left out of both lists
C24_WitnessLeftOut ==
    /\ listed.required_read
    /\ listed.free_read
    /\ Len(parameters) = 2
    /\ listed.free = <<parameters[2]>>
    /\ listed.required = listed.free

(***************************************************************************)
(* C25: in the first encode pass the end-of-PDU flag seen by a parameter   *)
(* is false for every parameter except the last one in the list, and for   *)
(* the last one it equals the is_end_of_pdu argument given to the          *)
(* structure; this holds also when an earlier parameter compares equal to  *)
(* the last parameter.                                                     *)
(***************************************************************************)
\* the first pass has just called encode_into_pdu of parameter i; the encode
\* state still carries the flag that call saw
FirstPassJustCalled(i) ==
    /\ trace # <<>>
    /\ trace[Len(trace)] = Step("pass1", i)

C25_EndOfPduForLastOnly ==
    \A i \in 1..Len(parameters) :
       FirstPassJustCalled(i)
          => encode_state.is_end_of_pdu
                = IF i = Len(parameters) THEN arg_eop ELSE FALSE

(***************************************************************************)
(* C26: encode and decode work on per-call state only: encode leaves the   *)
(* caller's value mapping unchanged (parameters write only into a copy),   *)
(* and convert_bytes_to_physical leaves the decode state it was given      *)
(* unchanged (its cursor position and its value mapping), the nested       *)
(* structure starting from an empty value mapping of its own.              *)
(***************************************************************************)
\* a step of a running call changes neither argument of the caller
CallerStateKept ==
    pc # "idle" => /\ arg_values' = arg_values
                   /\ decode_state' = decode_state

\* the first parameter of the structure is decoded into an empty mapping
InnerStartsEmpty == seen # <<>> => seen[1] = EmptyMap

C26_PerCallStateOnly == [][CallerStateKept]_vars /\ []InnerStartsEmpty

\* an encode call has returned and a parameter has recorded a length in the
\* copy that the caller's mapping does not hold
C26_Witness ==
    /\ pc = "done"
    /\ dec_entry = "none"
    /\ LengthKeyName \in DOMAIN encode_state.parameter_values
    /\ LengthKeyName \notin DOMAIN arg_values

\* a structure has been decoded out of a decode state that held a value
C26_WitnessDecode ==
    /\ pc = "done"
    /\ dec_entry = "convert_bytes_to_physical"
    /\ DOMAIN decode_state.parameter_values # {}
    /\ decode_state.cursor_position > 0
    /\ DOMAIN dec_result.values # {}

(***************************************************************************)
(* C27, as claimed: in one successful encode call every parameter that is  *)
(* neither a length key nor a table key has its encode_into_pdu invoked    *)
(* exactly once, and every length-key or table-key parameter exactly       *)
(* twice: once at its declared place in the first pass and once in the     *)
(* second pass, the second invocation seeing the buffer produced by the    *)
(* first pass plus padding.                                                *)
(***************************************************************************)
\* the places of the trace at which encode_into_pdu of parameter i was called
Invocations(i, phase) ==
    {k \in 1..Len(trace) : trace[k] = Step(phase, i)}

PadPlace == CHOOSE k \in 1..Len(trace) : trace[k].phase = "pad"

\* the encode state the first pass and the padding leave
PaddedFirstPassState ==
    PadToByteSize(
        FirstPassLoop(parameters, 1, NewEncodeState(arg_values), arg_eop).state,
        byte_size)

\* the buffer of the first pass, padded
PaddedFirstPass == PaddedFirstPassState.coded_message

SecondPassAt(i) == pc = "pass2" /\ idx = i /\ IsKey(parameters[i])

\* once in the first pass at its place, a key once more after the padding
InvokedOnceOrTwice ==
    pc = "done"
       => \A i \in 1..Len(parameters) :
             /\ Invocations(i, "pass1") = {i}
             /\ Cardinality(Invocations(i, "pass2"))
                   = IF IsKey(parameters[i]) THEN 1 ELSE 0
             /\ \A k \in Invocations(i, "pass2") : k > PadPlace

C27_EveryKeySeesFirstPassAsClaimed ==
    /\ InvokedOnceOrTwice
    /\ \A i \in 1..Len(parameters) :
          SecondPassAt(i) => encode_state.coded_message = PaddedFirstPass

(***************************************************************************)
(* C27, amended: the invocations are as claimed, but only the first key's  *)
(* second invocation sees the buffer of the first pass plus padding.  The  *)
(* second loop hands every key the same encode state and replaces its      *)
(* coded_message after each key (line 157), so a later key sees that       *)
(* buffer as the second invocations of the keys before it left it.         *)
(***************************************************************************)
\* the buffer after the second invocations of the keys among the first n
\* parameters, in list order
RECURSIVE AfterKeys(_)
AfterKeys(n) ==
    IF n = 0 THEN PaddedFirstPassState
    ELSE LET es == AfterKeys(n - 1)
         IN IF ~IsKey(parameters[n]) THEN es
            ELSE LET out == encode_into_pdu(parameters[n], es)
                 IN [es EXCEPT !.coded_message = out.coded_message,
                               !.parameter_values = out.parameter_values]

C27_InvocationsPerParameter ==
    /\ InvokedOnceOrTwice
    /\ \A i \in 1..Len(parameters) :
          SecondPassAt(i)
             => /\ encode_state.coded_message
                      = AfterKeys(i - 1).coded_message
                /\ (\A j \in 1..(i - 1) : ~IsKey(parameters[j]))
                      => encode_state.coded_message = PaddedFirstPass

\* a length key and a table key, both appended: the table key's second
\* invocation meets a buffer the length key's second invocation made longer
C27_Witness ==
    /\ SecondPassAt(2)
    /\ parameters[1].kind = "LENGTH-KEY"
    /\ parameters[2].kind = "TABLE-KEY"
    /\ parameters[1].byte_position = None
    /\ byte_size = None
    /\ Len(PaddedFirstPass) = 2
    /\ Len(encode_state.coded_message) = 3

\* a value parameter and a table key, padded: three invocations
C27_WitnessInvocations ==
    /\ pc = "done"
    /\ Len(parameters) = 2
    /\ parameters[1].kind = "VALUE"
    /\ parameters[2].kind = "TABLE-KEY"
    /\ byte_size = MaxByteSize
    /\ Invocations(1, "pass2") = {}
    /\ Invocations(2, "pass2") = {4}
    /\ Len(PaddedFirstPass) = MaxByteSize

\* the second invocation of the first key is about to see the padded buffer
C27_WitnessSecondSees ==
    /\ SecondPassAt(2)
    /\ parameters[1].kind = "VALUE"
    /\ byte_size = MaxByteSize
    /\ encode_state.coded_message = PaddedFirstPass
    /\ Len(PaddedFirstPass) = MaxByteSize

(***************************************************************************)
(* C28: decode emits the size-mismatch warning if and only if the input    *)
(* message is longer than the number of bytes consumed; no warning is      *)
(* emitted when the consumed position equals the input length, and a final *)
(* cursor beyond the end of the input is not reported as "message longer   *)
(* than could be parsed".                                                  *)
(***************************************************************************)
SizeMismatchWarned == \E k \in 1..Len(warnings) : warnings[k] = "size mismatch"

C28_WarnsIffMessageLonger ==
    DecodeReturned
       => (SizeMismatchWarned <=> Len(decode_state.coded_message) > Consumed)

(***************************************************************************)
(* C29: a structure decoded from a decode state whose cursor is at byte c  *)
(* reads its parameters from the window of the message starting at byte c  *)
(* with an inner cursor starting at 0, and returns as new cursor c plus    *)
(* the final inner cursor; hence the returned cursor is never smaller      *)
(* than c.                                                                 *)
(***************************************************************************)
NestedDecode ==
    dec_entry = "convert_bytes_to_physical" /\ pc \in {"dec", "dec_return", "done"}

\* the byte of the whole message a parameter read, found through the window:
\* a one-byte parameter that reports position q has read byte q of the window
ReadFromWindow(k) ==
    reported[k].value
       = decode_state.coded_message[
            decode_state.cursor_position + reported[k].cursor_position]

C29_WindowStartsAtCursor ==
    NestedDecode
       => /\ inner.coded_message
                = SliceFrom(decode_state.coded_message,
                            decode_state.cursor_position)
          /\ reported = <<>> => inner.cursor_position = 0
          /\ \A k \in 1..Len(reported) : ReadFromWindow(k)
          /\ pc = "done"
                => /\ dec_result.cursor_position
                         = decode_state.cursor_position + inner.cursor_position
                   /\ dec_result.cursor_position >= decode_state.cursor_position

\* two parameters decoded from byte 1 on of a message of three bytes
C29_Witness ==
    /\ NestedDecode
    /\ pc = "done"
    /\ decode_state.cursor_position = 1
    /\ Len(decode_state.coded_message) = 3
    /\ decode_state.coded_message[1] # decode_state.coded_message[2]
    /\ Len(reported) = 2
    /\ dec_result.cursor_position = 3

(***************************************************************************)
(* C30: every Database object answers its public accessors in every        *)
(* reachable state: after construction with no arguments (empty database)  *)
(* and before any refresh, odxlinks, diag_layers, protocols and ecus       *)
(* return empty collections instead of failing.                            *)
(***************************************************************************)
C30_AccessorsAlwaysAnswer ==
    observed.read
       => /\ observed.error = "none"
          /\ (pc = "constructed" /\ refresh_calls = 0)
                => /\ observed.odxlinks = EmptyMap
                   /\ observed.diag_layers = <<>>
                   /\ observed.protocols = <<>>
                   /\ observed.ecus = <<>>

(***************************************************************************)
(* C31: after any sequence of diag_layer_containers assignments followed   *)
(* by a completed refresh, the derived state reflects only the current     *)
(* containers: diag_layers, protocols and ecus are the concatenation of    *)
(* the current containers' layers in container order, and the link         *)
(* database holds no identifier that comes only from a container replaced  *)
(* before the refresh.                                                     *)
(***************************************************************************)
\* a refresh has completed and nothing has been assigned since
RefreshCompleted == pc = "ready" /\ db.refreshed

\* the identifiers the current subsets and containers declare
CurrentIds == UNION {DeclaredIds(obj) : obj \in LinkedObjects}

C31_DerivedStateOfCurrentContainers ==
    RefreshCompleted
       => LET dlcs == db.diag_layer_containers
          IN /\ db.diag_layers
                   = Chain([i \in 1..Len(dlcs) |-> diag_layers(dlcs[i])])
             /\ db.protocols
                   = Chain([i \in 1..Len(dlcs) |-> protocols(dlcs[i])])
             /\ db.ecus
                   = Chain([i \in 1..Len(dlcs) |-> ecu_variants(dlcs[i])])
             /\ DOMAIN db.odxlinks = CurrentIds

\* the container of the file was refreshed, two containers were assigned in
\* its place, the second one first, and refreshed: the layers are theirs, in
\* the order assigned
C31_Witness ==
    /\ RefreshCompleted
    /\ refresh_calls = 2
    /\ Len(db_before.diag_layers) = 2
    /\ OwnIds[2] \notin DOMAIN db_before.odxlinks
    /\ OidsOf(db.diag_layer_containers) = <<2, 1>>
    /\ OidsOf(db.diag_layers) = <<2, 2, 1, 1>>
    /\ OwnIds[2] \in DOMAIN db.odxlinks

\* the container of the file was replaced by no container: its layers, its
\* identifier and the "x" it declared are gone
C31_WitnessGone ==
    /\ RefreshCompleted
    /\ refresh_calls = 2
    /\ db.comparam_subsets = <<>>
    /\ Len(db_before.diag_layers) = 2
    /\ "x" \in DOMAIN db_before.odxlinks
    /\ db.diag_layer_containers = <<>>
    /\ db.diag_layers = <<>>
    /\ db.odxlinks = EmptyMap

====
